---- MODULE Spec2Model ----
(***************************************************************************)
(* A model of fmaas-router: the OpenAI-compatible HTTP handlers            *)
(* (/v1/chat/completions, /v1/completions) and the adapter that turns one  *)
(* OpenAI request into one upstream TGIS generate / generate_stream call   *)
(* and the upstream answer into a JSON body or a server-sent-event stream. *)
(*                                                                         *)
(* One HTTP request is followed from its arrival to the end of its         *)
(* response.  The positions (pc) are the await points of the code.         *)
(***************************************************************************)
EXTENDS Naturals, Sequences, FiniteSets, TLC

VARIABLES
    model_map,      \* the loaded ModelMap (lib.rs), fixed at startup
    clients,        \* AppState.clients(): model ids that have a generation client
    request,        \* the inbound OpenAI request, until the adapter consumes it
    pc,             \* position of the handler / of the SSE generator
    http_response,  \* what the HTTP client got as status line and body
    adapter,        \* the locals the adapter keeps across awaits
    calls,          \* upstream RPC calls issued, in order
    upstream,       \* state of the upstream call / response stream
    received,       \* messages response_stream.next() has yielded so far
    events,         \* SSE events the generator has yielded so far
    client,         \* the HTTP client's connection: "connected" / "disconnected"
    servicers,      \* the clients maps of the NLP and the info servicer
    rpc_request,    \* the inbound native RPC request a servicer method took
    rpc_pc,         \* position of the servicer method
    rpc_calls,      \* upstream calls the servicer method issued, in order
    rpc_replies,    \* what upstream answered to those calls, in order
    results,        \* get_models_info: the responses pushed so far
    rpc_response,   \* what the servicer method returned to its caller
    conv_in,        \* the arguments a conversion function is called with
    conv_out,       \* what the conversion function returned for them
    args,           \* what main() passes to run(), and the platform
    run_pc,         \* position of run()
    grpc_finished,  \* what grpc_server_handle.is_finished() returned
    client_tls,     \* the ClientTlsConfig of the upstream channels, if any
    channels,       \* how the build of each upstream channel ended
    upstream_clients, \* the clients map run() built: the target of each client
    grpc_server,    \* the spawned task of the gRPC server
    http_server,    \* the HTTP server run() awaits
    signal,         \* the signal the process got last
    run_error       \* the message run() panicked with

\* the state of one native RPC exchange
rpc_vars == <<servicers, rpc_request, rpc_pc, rpc_calls, rpc_replies, results,
              rpc_response>>

\* the state of one OpenAI HTTP exchange
openai_vars == <<model_map, clients, request, pc, http_response, adapter,
                 calls, upstream, received, events, client>>

\* one call of a conversion function of the OpenAI adapters
conv_vars == <<conv_in, conv_out>>

\* the state of run(), from its call to its end
startup_vars == <<args, run_pc, grpc_finished, client_tls, channels, upstream_clients,
                  grpc_server, http_server, signal, run_error>>

\* what an OpenAI handler leaves alone
outside_openai == <<rpc_vars, conv_vars, startup_vars>>

\* what a servicer method leaves alone
outside_rpc == <<openai_vars, conv_vars, startup_vars>>

\* what a conversion function leaves alone
outside_conv == <<openai_vars, rpc_vars, startup_vars>>

vars == <<model_map, clients, request, pc, http_response, adapter, calls,
          upstream, received, events, client, servicers, rpc_request, rpc_pc,
          rpc_calls, rpc_replies, results, rpc_response, conv_in, conv_out,
          args, run_pc, grpc_finished, client_tls, channels, upstream_clients,
          grpc_server, http_server, signal, run_error>>

(***************************************************************************)
(* Bounds of the model.                                                    *)
(***************************************************************************)
\* upstream messages one response stream delivers at most
MaxStream == 4

\* alternatives (top tokens) one generated token carries at most
MaxTopTokens == 2

(***************************************************************************)
(* Option<T>: None is the empty tuple, Some(x) the one-element tuple.      *)
(***************************************************************************)
None == << >>

Some(x) == <<x>>

is_some(o) == o # None

unwrap_or(o, d) == IF o = None THEN d ELSE o[1]

\* u32 addition.  The token counts of the model are far below 2^32 (which
\* is itself beyond the integers of the checker), so no sum wraps.
u32_add(a, b) == a + b

(***************************************************************************)
(* Configuration: the model map and the registry built from it.            *)
(***************************************************************************)
\* m1: client and chat template, m2: client only, m3: template only, m4: unknown
ModelIds == {"m1", "m2", "m3", "m4"}

ModelMapV1(gen) ==
    [version |-> "V1", generation |-> gen, embeddings |-> {}, chat_templates |-> {}]

ModelMapV2(gen, emb, tpl) ==
    [version |-> "V2", generation |-> gen, embeddings |-> emb, chat_templates |-> tpl]

ModelMaps == { ModelMapV1({"m1"}),
               ModelMapV2({"m1", "m2"}, {}, {"m1", "m3"}) }

\* ModelMap::generation: Some(&v1.0), or the sub-map if it is not empty
generation(mm) ==
    IF mm.version = "V1" THEN Some(mm.generation)
    ELSE IF mm.generation # {} THEN Some(mm.generation) ELSE None

\* ModelMap::embeddings: None for the legacy schema
embeddings(mm) ==
    IF mm.version = "V1" THEN None
    ELSE IF mm.embeddings # {} THEN Some(mm.embeddings) ELSE None

\* the model maps ModelMap::load accepts: either schema, sub-maps empty or not
LoadedModelMaps ==
    { ModelMapV1(gen) : gen \in {{}, {"m1"}} }
        \cup { ModelMapV2(gen, emb, {}) :
                 gen \in {{}, {"m1", "m2"}}, emb \in {{}, {"m1"}} }

\* ModelMap::chat_templates: unimplemented!() for the legacy schema
chat_templates_panics(mm) == mm.version = "V1"

chat_templates(mm) == mm.chat_templates

\* create_clients: one client per key of the generation sub-map
create_clients(sub_map) == sub_map

(***************************************************************************)
(* Chat template rendering (the alternating-role template of the fixture). *)
(***************************************************************************)
BosToken == "<s>"

EosToken == "</s>"

\* one line of a template source: its leading white space and its statement
TemplateLine(indent, statement) == [indent |-> indent, statement |-> statement]

\* the source of the fixture's template, as the folded YAML scalar holds it
RawChatTemplate ==
    << TemplateLine("", "{{ bos_token }}{% for message in messages %}"),
       TemplateLine("    ", "{% if (role == 'user') != (index0 % 2 == 0) %}"),
       TemplateLine("        ", "{{ raise_exception(alternate) }}"),
       TemplateLine("    ", "{% endif %}"),
       TemplateLine("    ", "{% if role == 'user' %}"),
       TemplateLine("        ", "{{ '[INST] ' + content + ' [/INST]' }}"),
       TemplateLine("    ", "{% elif role == 'assistant' %}"),
       TemplateLine("        ", "{{ content + eos_token }}"),
       TemplateLine("    ", "{% else %}"),
       TemplateLine("        ", "{{ raise_exception(roles) }}"),
       TemplateLine("    ", "{% endif %}"),
       TemplateLine("", "{% endfor %}") >>

\* a line left as the source holds it
trim_kept(line) == line

\* str::trim on one line of the source
trim(line) == [line EXCEPT !.indent = ""]

\* TryFrom<RawChatTemplate>: the lines of the source, each trimmed, joined
try_from(source) == [k \in DOMAIN source |-> trim(source[k])]

\* the literal text the compiled template holds in front of the statement
\* that line k of the source carried
template_text(k) == try_from(RawChatTemplate)[k].indent

RECURSIVE render_from(_, _)
\* the body of the template's for loop over messages[i..]; "raise" stands
\* for raise_exception
render_from(messages, i) ==
    IF i > Len(messages) THEN Some("")
    ELSE LET m == messages[i]
             rest == render_from(messages, i + 1)
         IN  IF (m.role = "user") # ((i - 1) % 2 = 0) THEN None
             ELSE IF m.role \notin {"user", "assistant"} THEN None
             ELSE IF rest = None THEN None
             ELSE IF m.role = "user"
                  THEN Some(template_text(2) \o template_text(5)
                              \o template_text(6)
                              \o "[INST] " \o m.content \o " [/INST]"
                              \o template_text(7) \o template_text(12)
                              \o rest[1])
                  ELSE Some(template_text(2) \o template_text(5)
                              \o template_text(8)
                              \o m.content \o EosToken
                              \o template_text(9) \o template_text(12)
                              \o rest[1])

\* Template::render: None when the template raises
template_render(messages) ==
    LET body == render_from(messages, 1)
    IN  IF body = None THEN None ELSE Some(BosToken \o body[1])

(***************************************************************************)
(* Native (TGIS) messages.                                                 *)
(***************************************************************************)
StopReasons == {"NotFinished", "MaxTokens", "EosToken", "Cancelled", "TimeLimit",
                "StopSequence", "TokenLimit", "Error"}

TokenInfo(text, logprob, top_tokens) ==
    [text |-> text, logprob |-> logprob, top_tokens |-> top_tokens]

TopToken(text, logprob) == [text |-> text, logprob |-> logprob]

GenerationResponse(text, itc, gtc, sr, tokens, input_tokens) ==
    [text |-> text, input_token_count |-> itc, generated_token_count |-> gtc,
     stop_reason |-> sr, tokens |-> tokens, input_tokens |-> input_tokens]

\* The messages the modelled upstream may send, at any position of a stream:
\* a header message (the input token count, the echoed input text, the input
\* tokens), two body messages with tokens, and terminal messages of the
\* finish-reason classes.
UpstreamMessages ==
    { GenerationResponse("P", 3, 0, "NotFinished", <<>>,
                         <<TokenInfo("p", 1, <<>>)>>),
      GenerationResponse("a", 0, 1, "NotFinished",
                         <<TokenInfo("a", 2, <<TopToken("b", 1)>>)>>, <<>>),
      GenerationResponse("b", 0, 2, "EosToken",
                         <<TokenInfo("b", 1, <<>>)>>, <<>>),
      GenerationResponse("", 0, 2, "MaxTokens", <<>>, <<>>),
      GenerationResponse("c", 0, 1, "Error", <<>>, <<>>) }

(***************************************************************************)
(* Native -> OpenAI mappings of the adapter.                               *)
(***************************************************************************)
\* the match on response.stop_reason() of chat_generate_stream
stream_finish_reason(sr) ==
    IF sr \in {"MaxTokens", "TokenLimit"} THEN Some("length")
    ELSE IF sr \in {"StopSequence", "EosToken"} THEN Some("stop")
    ELSE IF sr \in {"Cancelled", "TimeLimit", "Error"} THEN Some("abort")
    ELSE None

\* a slip: a time limit is reported as a length limit
completions_stream_finish_reason_time(sr) ==
    IF sr \in {"MaxTokens", "TokenLimit", "TimeLimit"} THEN Some("length")
    ELSE IF sr \in {"StopSequence", "EosToken"} THEN Some("stop")
    ELSE IF sr \in {"Cancelled", "Error"} THEN Some("abort")
    ELSE None

\* the match on response.stop_reason() of generate_stream (completions)
completions_stream_finish_reason(sr) ==
    IF sr \in {"MaxTokens", "TokenLimit"} THEN Some("length")
    ELSE IF sr \in {"StopSequence", "EosToken"} THEN Some("stop")
    ELSE IF sr \in {"Cancelled", "TimeLimit", "Error"} THEN Some("abort")
    ELSE None

Usage(completion, prompt, total) ==
    [completion_tokens |-> completion, prompt_tokens |-> prompt,
     total_tokens |-> total]

\* a slip: usage on every chunk
stream_usage_always(finish_reason, response, prompt_tokens) ==
    Some(Usage(response.generated_token_count, prompt_tokens,
               u32_add(prompt_tokens, response.generated_token_count)))

\* usage of a streamed chunk: only with a finish reason
stream_usage(finish_reason, response, prompt_tokens) ==
    IF is_some(finish_reason)
    THEN Some(Usage(response.generated_token_count, prompt_tokens,
                    u32_add(prompt_tokens, response.generated_token_count)))
    ELSE None

\* the (text, logprob) pairs of a token: its top tokens, then the token itself
chained(token_info) ==
    [i \in 1..(Len(token_info.top_tokens) + 1) |->
        IF i <= Len(token_info.top_tokens)
        THEN [token |-> token_info.top_tokens[i].text,
              logprob |-> token_info.top_tokens[i].logprob]
        ELSE [token |-> token_info.text, logprob |-> token_info.logprob]]

Max(S) == CHOOSE x \in S : \A y \in S : y <= x

Min(S) == CHOOSE x \in S : \A y \in S : x <= y

\* a slip: one entry per text, the first write wins
hash_map_entries_first(pairs) ==
    { [token |-> pairs[i].token,
       logprob |-> pairs[Min({j \in 1..Len(pairs) : pairs[j].token = pairs[i].token})].logprob]
      : i \in 1..Len(pairs) }

\* collect::<HashMap<String, f32>>: one entry per text, the last write wins
hash_map_entries(pairs) ==
    { [token |-> pairs[i].token,
       logprob |-> pairs[Max({j \in 1..Len(pairs) : pairs[j].token = pairs[i].token})].logprob]
      : i \in 1..Len(pairs) }

\* the orders sort_by leaves the entries of a HashMap in: the map iterates in
\* an arbitrary order and the sort is stable, so any ascending order
sorted_orders(entries) ==
    { s \in [1..Cardinality(entries) -> entries] :
        /\ \A i, j \in 1..Cardinality(entries) : i # j => s[i] # s[j]
        /\ \A i, j \in 1..Cardinality(entries) : i < j => s[i].logprob <= s[j].logprob }

\* chat.rs create_logprobs, one token: the possible ChatCompletionLogprob values
chat_logprob_entries(token_info, n_logprobs) ==
    IF n_logprobs > 0
    THEN { [token |-> token_info.text, logprob |-> token_info.logprob,
            top_logprobs |-> Some(s)]
           : s \in sorted_orders(hash_map_entries(chained(token_info))) }
    ELSE { [token |-> token_info.text, logprob |-> token_info.logprob,
            top_logprobs |-> None] }

\* chat.rs create_logprobs: the possible results
chat_create_logprobs(tokens, n_logprobs) ==
    IF tokens = <<>> THEN { None }
    ELSE { Some([content |-> c]) :
           c \in { c \in [1..Len(tokens) ->
                           UNION { chat_logprob_entries(tokens[i], n_logprobs)
                                   : i \in 1..Len(tokens) }] :
                   \A i \in 1..Len(tokens) :
                       c[i] \in chat_logprob_entries(tokens[i], n_logprobs) } }

RECURSIVE insert_sorted(_, _)
\* x placed after every element that is not greater: a stable insertion
insert_sorted(sorted, x) ==
    IF sorted = <<>> THEN <<x>>
    ELSE IF x.logprob < sorted[Len(sorted)].logprob
         THEN Append(insert_sorted(SubSeq(sorted, 1, Len(sorted) - 1), x),
                     sorted[Len(sorted)])
         ELSE Append(sorted, x)

RECURSIVE stable_sort(_)
\* Vec::sort_by on the logprob
stable_sort(pairs) ==
    IF pairs = <<>> THEN <<>>
    ELSE insert_sorted(stable_sort(SubSeq(pairs, 1, Len(pairs) - 1)),
                       pairs[Len(pairs)])

RECURSIVE index_map(_)
\* collect::<IndexMap<String, f32>>: a key keeps the position of its first
\* insertion and the value of its last
index_map(pairs) ==
    IF pairs = <<>> THEN <<>>
    ELSE LET init == index_map(SubSeq(pairs, 1, Len(pairs) - 1))
             x == pairs[Len(pairs)]
         IN  IF \E i \in 1..Len(init) : init[i].token = x.token
             THEN [i \in 1..Len(init) |->
                      IF init[i].token = x.token THEN x ELSE init[i]]
             ELSE Append(init, x)

\* completions.rs create_logprobs
completions_create_logprobs(tokens, n_logprobs) ==
    IF tokens = <<>> THEN None
    ELSE Some([text_offset |-> <<>>,
               token_logprobs |-> [i \in 1..Len(tokens) |-> tokens[i].logprob],
               tokens |-> [i \in 1..Len(tokens) |-> tokens[i].text],
               top_logprobs |->
                   IF n_logprobs > 0
                   THEN Some([i \in 1..Len(tokens) |->
                                 index_map(stable_sort(chained(tokens[i])))])
                   ELSE None])

(***************************************************************************)
(* OpenAI requests.                                                        *)
(***************************************************************************)
Message(role, content) == [role |-> role, content |-> content]

\* an alternating conversation and one the role-alternation guard rejects
MessageLists == { <<Message("user", "hi")>>,
                  <<Message("user", "a"), Message("user", "b")>> }

ChatCompletionRequests ==
    { [kind |-> "chat", model |-> m, messages |-> ms, best_of |-> bo,
       use_beam_search |-> bs, stream |-> st, logprobs |-> lp,
       top_logprobs |-> tl] :
      m \in ModelIds, ms \in MessageLists, bo \in {None, Some(2)},
      bs \in {None, Some(FALSE), Some(TRUE)},
      st \in {None, Some(FALSE), Some(TRUE)},
      lp \in {None, Some(FALSE), Some(TRUE)},
      tl \in {None, Some(0), Some(2)} }

CompletionRequests ==
    { [kind |-> "completion", model |-> m, prompt |-> "p", best_of |-> bo,
       use_beam_search |-> bs, stream |-> st, echo |-> e, logprobs |-> lp] :
      m \in ModelIds, bo \in {None, Some(2)},
      bs \in {None, Some(FALSE), Some(TRUE)},
      st \in {None, Some(FALSE), Some(TRUE)},
      e \in {None, Some(FALSE), Some(TRUE)},
      lp \in {None, Some(0), Some(1)} }

(***************************************************************************)
(* OpenAI -> native request.                                               *)
(***************************************************************************)
ResponseOptions(input_text, generated_tokens, input_tokens, token_logprobs,
                token_ranks, top_n_tokens) ==
    [input_text |-> input_text, generated_tokens |-> generated_tokens,
     input_tokens |-> input_tokens, token_logprobs |-> token_logprobs,
     token_ranks |-> token_ranks, top_n_tokens |-> top_n_tokens]

\* impl From<ChatCompletionRequest> for Parameters: the response options
chat_response_options(req) ==
    LET generated_tokens == unwrap_or(req.logprobs, FALSE)
        top_n_tokens == IF generated_tokens THEN unwrap_or(req.top_logprobs, 1)
                        ELSE 0
    IN  ResponseOptions(FALSE, generated_tokens, FALSE, generated_tokens,
                        FALSE, top_n_tokens)

\* a slip: input tokens are asked for whenever the input text is
completion_response_options_echo(req) ==
    LET input_text == unwrap_or(req.echo, FALSE)
        generated_tokens == is_some(req.logprobs)
    IN  ResponseOptions(input_text, generated_tokens, input_text,
                        generated_tokens, FALSE, unwrap_or(req.logprobs, 0))

\* impl From<CompletionRequest> for Parameters: the response options
completion_response_options(req) ==
    LET input_text == unwrap_or(req.echo, FALSE)
        generated_tokens == is_some(req.logprobs)
    IN  ResponseOptions(input_text, generated_tokens,
                        input_text /\ generated_tokens, generated_tokens,
                        FALSE, unwrap_or(req.logprobs, 0))

\* impl From<(ChatCompletionRequest, String)> for Single/BatchedGenerationRequest
chat_native_request(req, prompt) ==
    [model_id |-> req.model, text |-> prompt,
     params |-> [response |-> chat_response_options(req)]]

\* impl From<CompletionRequest> for Single/BatchedGenerationRequest
completion_native_request(req) ==
    [model_id |-> req.model, text |-> req.prompt,
     params |-> [response |-> completion_response_options(req)]]

(***************************************************************************)
(* State of one exchange.                                                  *)
(***************************************************************************)
HttpResponse(status, body, json) ==
    [status |-> status, body |-> body, json |-> json]

\* the adapter's locals; endpoint "none" while no adapter runs
Adapter(endpoint, echo, n_logprobs, native) ==
    [endpoint |-> endpoint, echo |-> echo, n_logprobs |-> n_logprobs,
     native |-> native, prompt_tokens |-> 0, input_text |-> None,
     input_tokens |-> None]

NoNative == [model_id |-> "", text |-> "",
             params |-> [response |-> ResponseOptions(FALSE, FALSE, FALSE,
                                                      FALSE, FALSE, 0)]]

NoAdapter == Adapter("none", FALSE, 0, NoNative)

Call(method, native) == [method |-> method, request |-> native]

(***************************************************************************)
(* The native RPC facades (generation, NLP, info): requests, results and   *)
(* the state of one exchange.                                              *)
(***************************************************************************)
\* model ids one ModelInfoRequest names at most
MaxModelIds == 3

SeqsUpTo(S, n) == UNION { [1..k -> S] : k \in 0..n }

\* tonic::Status
Status(code, message) == [code |-> code, message |-> message]

NoStatus == Status("Ok", "")

\* a response message: its type and its repeated field (results, responses,
\* models); the default message has the field empty
Response(type, items) == [type |-> type, items |-> items]

NoResponse == Response("", <<>>)

\* Result<Response<T>, Status>
RpcOk(response) == [ok |-> TRUE, response |-> response, status |-> NoStatus]

RpcErr(status) == [ok |-> FALSE, response |-> NoResponse, status |-> status]

\* a metadata value: its bytes, and whether all of them are visible ASCII
MetadataValue(bytes, visible_ascii) ==
    [bytes |-> bytes, visible_ascii |-> visible_ascii]

\* MetadataValue::to_str: Err for a value with a byte that is not visible ASCII
to_str(value) == IF value.visible_ascii THEN Some(value.bytes) ELSE None

\* the request metadata: the value under "mm-model-id", if any
Metadata(mm_model_id) == [mm_model_id |-> mm_model_id]

MetadataMaps ==
    { Metadata(None), Metadata(Some(MetadataValue("bytes", FALSE))) }
    \cup { Metadata(Some(MetadataValue(m, TRUE))) : m \in ModelIds }

\* tonic::Request<T>, with the service and method it was sent to
Request(service, method, metadata, message) ==
    [service |-> service, method |-> method, metadata |-> metadata,
     message |-> message]

GenerationMethods == {"generate", "generate_stream", "tokenize", "model_info"}

NlpMethods == {"embedding_tasks_predict", "embedding_task_predict",
               "rerank_tasks_predict", "rerank_task_predict",
               "sentence_similarity_tasks_predict",
               "sentence_similarity_task_predict"}

\* the request messages of the generation service, routed by model_id
GenerationMessages(method) ==
    CASE method = "generate" ->
           { [model_id |-> m, requests |-> r] :
             m \in ModelIds, r \in {<<>>, <<"t">>} }
      [] method = "generate_stream" ->
           { [model_id |-> m, request |-> r] :
             m \in ModelIds, r \in {None, Some("t")} }
      [] method = "tokenize" ->
           { [model_id |-> m, requests |-> r] :
             m \in ModelIds, r \in {<<>>, <<"t">>} }
      [] method = "model_info" -> { [model_id |-> m] : m \in ModelIds }

\* the request messages of the NLP service
NlpMessages(method) ==
    CASE method = "embedding_tasks_predict" ->
           { [texts |-> t] : t \in {<<>>, <<"t">>} }
      [] method = "embedding_task_predict" ->
           { [text |-> t] : t \in {"", "t"} }
      [] method = "rerank_tasks_predict" ->
           { [queries |-> q, documents |-> d] :
             q \in {<<>>, <<"q">>}, d \in {<<>>, <<"d">>} }
      [] method = "rerank_task_predict" ->
           { [query |-> q, documents |-> d] :
             q \in {"", "q"}, d \in {<<>>, <<"d">>} }
      [] method = "sentence_similarity_tasks_predict" ->
           { [source_sentences |-> t, sentences |-> u] :
             t \in {<<>>, <<"s">>}, u \in {<<>>, <<"u">>} }
      [] method = "sentence_similarity_task_predict" ->
           { [source_sentence |-> t, sentences |-> u] :
             t \in {"", "s"}, u \in {<<>>, <<"u">>} }

GenerationRequests ==
    UNION { { Request("generation", method, md, msg) :
              md \in {Metadata(None), Metadata(Some(MetadataValue("m1", TRUE)))},
              msg \in GenerationMessages(method) } :
            method \in GenerationMethods }

NlpRequests ==
    UNION { { Request("nlp", method, md, msg) :
              md \in MetadataMaps, msg \in NlpMessages(method) } :
            method \in NlpMethods }

\* caikit ModelInfoRequest: the model ids to report on
InfoRequests ==
    { Request("info", "get_models_info", md, [model_ids |-> ids]) :
      md \in {Metadata(None), Metadata(Some(MetadataValue("m1", TRUE)))},
      ids \in SeqsUpTo(ModelIds, MaxModelIds) }

\* the sub-map each servicer is built from
ServicerModelMap == {"m1", "m2"}

\* the clients map a method looks its client up in
servicer_clients(service) ==
    IF service = "generation" THEN clients ELSE servicers[service]

\* no native RPC has arrived yet
rpc_idle ==
    /\ servicers = [nlp |-> create_clients(ServicerModelMap),
                    info |-> create_clients(ServicerModelMap)]
    /\ rpc_request = None
    /\ rpc_pc = "idle"
    /\ rpc_calls = <<>>
    /\ rpc_replies = <<>>
    /\ results = <<>>
    /\ rpc_response = None

\* no conversion function is being looked at
conv_idle ==
    /\ conv_in = None
    /\ conv_out = None

(***************************************************************************)
(* Startup: the arguments of run(), the TLS configuration and the channel  *)
(* factory.                                                                *)
(***************************************************************************)
\* --default-upstream-port
DefaultUpstreamPort == 8033

\* ServiceAddr { hostname, port }
ServiceAddr(hostname, port) == [hostname |-> hostname, port |-> port]

ServiceAddrs == { ServiceAddr("h1", None), ServiceAddr("h2", Some(9000)) }

\* the arguments of run() that main() lets through (a client CA needs the
\* key pair), the sub-map of the model map, whether the PEM files named can
\* be read, and whether the build is for Unix
RunArgs(sub_map) ==
    { a \in [tls_key_pair : BOOLEAN, tls_client_ca_cert : BOOLEAN,
             default_target_port : {DefaultUpstreamPort},
             upstream_tls : BOOLEAN, upstream_tls_ca_cert : BOOLEAN,
             model_map : [sub_map -> ServiceAddrs],
             pem_readable : BOOLEAN, unix : BOOLEAN] :
        a.tls_client_ca_cert => a.tls_key_pair }

\* ClientTlsConfig: what has been put into it
ClientTlsConfig(ca_certificate, identity) ==
    [ca_certificate |-> ca_certificate, identity |-> identity]

\* the outcome of a step of run(): it goes on with a value or it panics
Proceeds(value) == [ok |-> TRUE, value |-> value, error |-> None]

\* a panic with its message and, for an anyhow error, the context it carries
PanicInfo(message, context) == [message |-> message, context |-> context]

Panics(message) ==
    [ok |-> FALSE, value |-> None, error |-> Some(PanicInfo(message, None))]

\* run(), "Configure TLS if requested": the client TLS configuration
configure_tls(a) ==
    LET new == IF a.upstream_tls THEN Some(ClientTlsConfig(FALSE, FALSE))
               ELSE None
        with_ca == IF a.upstream_tls_ca_cert /\ is_some(new)
                   THEN Some(ClientTlsConfig(TRUE, new[1].identity))
                   ELSE new
    IN  IF a.upstream_tls_ca_cert /\ ~a.pem_readable
        THEN Panics("couldn't load cert")
        ELSE IF a.tls_key_pair
        THEN IF ~a.pem_readable THEN Panics("couldn't load cert")
             ELSE IF a.upstream_tls
             THEN Proceeds(Some(ClientTlsConfig(with_ca[1].ca_certificate, TRUE)))
             ELSE Proceeds(with_ca)
        ELSE IF a.upstream_tls
        THEN Panics("Upstream TLS enabled without any certificates")
        ELSE Proceeds(with_ca)

\* LoadBalancedChannel::builder((hostname, port)), with_tls when configured
client_target(service_addr, default_target_port, tls) ==
    [hostname |-> service_addr.hostname,
     port |-> unwrap_or(service_addr.port, default_target_port),
     tls |-> tls]

\* the clients of the channels that were built
built_clients(default_target_port, tls, sub_map, names) ==
    [name \in names |-> client_target(sub_map[name], default_target_port, tls)]

\* a slip: the entries whose channel failed are left out of the registry
try_join_all_partial(default_target_port, tls, sub_map, built, first_failed) ==
    Proceeds(built_clients(default_target_port, tls, sub_map,
                 { name \in DOMAIN sub_map : built[name] = "ok" }))

\* create_clients: try_join_all(clients).await.expect(..).collect(), with
\* built[name] how the channel of name ended and first_failed the entry
\* whose error try_join_all returned
try_join_all(default_target_port, tls, sub_map, built, first_failed) ==
    IF \A name \in DOMAIN sub_map : built[name] = "ok"
    THEN Proceeds(built_clients(default_target_port, tls, sub_map,
                                DOMAIN sub_map))
    ELSE [ok |-> FALSE, value |-> None,
          error |-> Some(PanicInfo("Error creating upstream service clients",
                             Some(<<"Channel failed for service", first_failed>>)))]

\* the arguments of a router that runs without TLS
ServingArgs(sub_map) ==
    [tls_key_pair |-> FALSE, tls_client_ca_cert |-> FALSE,
     default_target_port |-> DefaultUpstreamPort, upstream_tls |-> FALSE,
     upstream_tls_ca_cert |-> FALSE,
     model_map |-> [name \in sub_map |-> ServiceAddr("h1", None)],
     pem_readable |-> TRUE, unix |-> TRUE]

\* run() has started both servers and awaits the HTTP server
startup_done ==
    /\ args = ServingArgs(model_map.generation)
    /\ run_pc = "await_http"
    /\ grpc_finished = Some(FALSE)
    /\ client_tls = None
    /\ channels = [name \in model_map.generation |-> "ok"]
    /\ upstream_clients = Some(built_clients(DefaultUpstreamPort, None, args.model_map,
                                     model_map.generation))
    /\ grpc_server = "running"
    /\ http_server = "running"
    /\ signal = "none"
    /\ run_error = None

\* the router after startup: both halves wait for a request
serving_idle ==
    /\ model_map \in ModelMaps
    /\ clients = create_clients(model_map.generation)
    /\ request = None
    /\ pc = "idle"
    /\ http_response = None
    /\ adapter = NoAdapter
    /\ calls = <<>>
    /\ upstream = "none"
    /\ received = <<>>
    /\ events = <<>>
    /\ client = "connected"
    /\ rpc_idle

Init ==
    /\ serving_idle
    /\ conv_idle
    /\ startup_done

(***************************************************************************)
(* The HTTP handlers up to their first await.                              *)
(***************************************************************************)
Outcome(tag, status, body, prompt) ==
    [tag |-> tag, status |-> status, body |-> body, prompt |-> prompt]

\* a slip: is_some() in place of is_some_and(|x| x)
not_implemented_any_beam(req) ==
    IF is_some(req.best_of)
    THEN Some("best_of is not yet implemented")
    ELSE IF is_some(req.use_beam_search)
    THEN Some("use_beam_search is not yet implemented")
    ELSE None

\* the two 501 checks both handlers start with (the bodies are written here
\* without the backquotes the code puts around the names)
not_implemented(req) ==
    IF is_some(req.best_of)
    THEN Some("best_of is not yet implemented")
    ELSE IF req.use_beam_search = Some(TRUE)
    THEN Some("use_beam_search is not yet implemented")
    ELSE None

\* a slip: the result of the lookup is not checked
client_lookup_unchecked(registry, model_id) == None

\* state.clients().get(model_id)
client_lookup(registry, model_id) ==
    IF model_id \in registry THEN None
    ELSE Some("Unrecognized model id " \o model_id)

\* state.model_map().chat_templates().get(model_id)
template_lookup(mm, model_id) ==
    IF model_id \in chat_templates(mm) THEN None
    ELSE Some("Chat template not found for model id " \o model_id)

\* chat_completions, lines 42-83: an error response, a panic, or the prompt
chat_completions_outcome(req, registry, mm) ==
    IF is_some(not_implemented(req))
    THEN Outcome("error", 501, not_implemented(req)[1], "")
    ELSE IF is_some(client_lookup(registry, req.model))
    THEN Outcome("error", 422, client_lookup(registry, req.model)[1], "")
    ELSE IF chat_templates_panics(mm)
    THEN Outcome("panic", 0, "", "")
    ELSE IF is_some(template_lookup(mm, req.model))
    THEN Outcome("error", 422, template_lookup(mm, req.model)[1], "")
    ELSE IF template_render(req.messages) = None
    THEN Outcome("panic", 0, "", "")
    ELSE Outcome("ok", 200, "", template_render(req.messages)[1])

\* completions, lines 42-72
completions_outcome(req, registry) ==
    IF is_some(not_implemented(req))
    THEN Outcome("error", 501, not_implemented(req)[1], "")
    ELSE IF is_some(client_lookup(registry, req.model))
    THEN Outcome("error", 422, client_lookup(registry, req.model)[1], "")
    ELSE Outcome("ok", 200, "", req.prompt)

\* the handler returns Err((status, Json(body)))
respond_error(req, out) ==
    /\ request' = Some(req)
    /\ http_response' = Some(HttpResponse(out.status, out.body, None))
    /\ pc' = "responded"
    /\ UNCHANGED <<adapter, calls, upstream>>

\* the handler's task panics: the connection ends with no response
handler_panics(req) ==
    /\ request' = Some(req)
    /\ pc' = "panicked"
    /\ UNCHANGED <<http_response, adapter, calls, upstream>>

\* stream = true: the handler returns the SSE response; the generator that
\* will make the upstream call is its body and has not been polled yet
respond_sse(ad) ==
    /\ request' = None
    /\ adapter' = ad
    /\ http_response' = Some(HttpResponse(200, "text/event-stream", None))
    /\ pc' = "sse_start"
    /\ UNCHANGED <<calls, upstream>>

\* stream = false: the adapter issues the unary call and awaits it
call_generate(ad) ==
    /\ request' = None
    /\ adapter' = ad
    /\ calls' = Append(calls, Call("generate", ad.native))
    /\ upstream' = "pending"
    /\ pc' = "await_generate"
    /\ UNCHANGED http_response

chat_completions(req) ==
    /\ pc = "idle"
    /\ LET out == chat_completions_outcome(req, clients, model_map)
           ad == Adapter("chat", FALSE, unwrap_or(req.top_logprobs, 0),
                         chat_native_request(req, out.prompt))
       IN  IF out.tag = "error" THEN respond_error(req, out)
           ELSE IF out.tag = "panic" THEN handler_panics(req)
           ELSE IF unwrap_or(req.stream, FALSE) THEN respond_sse(ad)
           ELSE call_generate(ad)
    /\ UNCHANGED <<model_map, clients, received, events, client>>

completions(req) ==
    /\ pc = "idle"
    /\ LET out == completions_outcome(req, clients)
           ad == Adapter("completion", unwrap_or(req.echo, FALSE),
                         unwrap_or(req.logprobs, 0),
                         completion_native_request(req))
       IN  IF out.tag = "error" THEN respond_error(req, out)
           ELSE IF unwrap_or(req.stream, FALSE) THEN respond_sse(ad)
           ELSE call_generate(ad)
    /\ UNCHANGED <<model_map, clients, received, events, client>>

(***************************************************************************)
(* The upstream side of a call, as the adapter sees it.                    *)
(***************************************************************************)
StreamItem(tag, msg) == [tag |-> tag, msg |-> msg]

\* what response_stream.next().await can yield next: Some(Ok(message)),
\* Some(Err(status)) or None
next_items ==
    { StreamItem("ok", Some(m)) : m \in { m \in UpstreamMessages :
                                          Len(received) < MaxStream } }
    \cup { StreamItem("err", None), StreamItem("end", None) }

take(item) ==
    /\ received' = IF item.tag = "ok" THEN Append(received, item.msg[1])
                   ELSE received
    /\ upstream' = IF item.tag = "ok" THEN "open"
                   ELSE IF item.tag = "err" THEN "error" ELSE "ended"

\* what client.generate(..).await can return: Err(status) or Ok(responses)
UnaryReplies ==
    { [ok |-> FALSE, responses |-> <<>>], [ok |-> TRUE, responses |-> <<>>] }
    \cup { [ok |-> TRUE, responses |-> <<m>>] : m \in UpstreamMessages }

\* a slip: the upstream reader runs in a task of its own, which nothing stops
task_detached == TRUE

\* The future serving the request (the handler, then the SSE generator that
\* is the response body) runs only while it is polled; the server drops it
\* when the connection is gone.  The upstream call and response_stream are
\* locals of that future.
task_polled == client = "connected"

AwaitPoints == {"sse_start", "await_call", "await_first", "await_second",
                "await_body", "await_generate"}

\* the HTTP client goes away: the future is dropped, and with it the
\* upstream call it owns
client_disconnect ==
    /\ client = "connected"
    /\ pc \in AwaitPoints
    /\ client' = "disconnected"
    /\ upstream' = IF upstream \in {"pending", "open"} THEN "cancelled"
                   ELSE upstream
    /\ UNCHANGED <<model_map, clients, request, pc, http_response, adapter,
                   calls, received, events>>
    /\ UNCHANGED outside_openai

(***************************************************************************)
(* Server-sent events.                                                     *)
(***************************************************************************)
ChunkEvent(chunk) == [kind |-> "chunk", chunk |-> chunk]

DoneEvent == [kind |-> "done", data |-> "[DONE]"]

chat_role_chunk(model_id) ==
    [object |-> "chat.completion.chunk", model |-> model_id,
     delta |-> [role |-> Some("assistant"), content |-> None],
     logprobs |-> None, finish_reason |-> None, usage |-> None]

\* a slip: the terminal chunk is sent with an empty delta
chat_chunk_empty_final(response, logprobs, prompt_tokens, model_id) ==
    [object |-> "chat.completion.chunk", model |-> model_id,
     delta |-> [role |-> None,
                content |-> IF response.stop_reason = "NotFinished"
                            THEN Some(response.text) ELSE None],
     logprobs |-> logprobs,
     finish_reason |-> stream_finish_reason(response.stop_reason),
     usage |-> stream_usage(stream_finish_reason(response.stop_reason),
                            response, prompt_tokens)]

chat_chunk(response, logprobs, prompt_tokens, model_id) ==
    [object |-> "chat.completion.chunk", model |-> model_id,
     delta |-> [role |-> None, content |-> Some(response.text)],
     logprobs |-> logprobs,
     finish_reason |-> stream_finish_reason(response.stop_reason),
     usage |-> stream_usage(stream_finish_reason(response.stop_reason),
                            response, prompt_tokens)]

completion_chunk(response, text, tokens, n_logprobs, prompt_tokens, model_id) ==
    [object |-> "text_completion", model |-> model_id, text |-> Some(text),
     logprobs |-> completions_create_logprobs(tokens, n_logprobs),
     finish_reason |-> completions_stream_finish_reason(response.stop_reason),
     usage |-> stream_usage(
                   completions_stream_finish_reason(response.stop_reason),
                   response, prompt_tokens)]

\* if response.input_token_count > 0 { prompt_tokens = .. }
first_prompt_tokens(response) ==
    IF response.input_token_count > 0 THEN response.input_token_count ELSE 0

(***************************************************************************)
(* TgisAdapter::chat_generate_stream: the generator, one action per await. *)
(***************************************************************************)
\* first poll: client.generate_stream(..) is issued
issue_generate_stream ==
    /\ task_polled
    /\ pc = "sse_start"
    /\ calls' = Append(calls, Call("generate_stream", adapter.native))
    /\ upstream' = "pending"
    /\ pc' = "await_call"
    /\ UNCHANGED <<model_map, clients, request, http_response, adapter,
                   received, events, client>>

chat_generate_stream_call ==
    /\ adapter.endpoint = "chat"
    /\ issue_generate_stream
    /\ UNCHANGED outside_openai

\* the call returns: .await.unwrap(), then the role-only chunk is yielded
chat_generate_stream_open ==
    /\ task_polled
    /\ adapter.endpoint = "chat"
    /\ pc = "await_call"
    /\ \E ok \in BOOLEAN :
        IF ok
        THEN /\ upstream' = "open"
             /\ events' = Append(events,
                                 ChunkEvent(chat_role_chunk(adapter.native.model_id)))
             /\ pc' = "await_first"
        ELSE /\ upstream' = "failed"
             /\ pc' = "panicked"
             /\ UNCHANGED events
    /\ UNCHANGED <<model_map, clients, request, http_response, adapter, calls,
                   received, client>>
    /\ UNCHANGED outside_openai

\* response_stream.next().await.unwrap().unwrap(): the first message
chat_generate_stream_first ==
    /\ task_polled
    /\ adapter.endpoint = "chat"
    /\ pc = "await_first"
    /\ \E item \in next_items :
        /\ take(item)
        /\ IF item.tag = "ok"
           THEN /\ adapter' = [adapter EXCEPT
                                 !.prompt_tokens = first_prompt_tokens(item.msg[1])]
                /\ pc' = "await_body"
           ELSE /\ pc' = "panicked"
                /\ UNCHANGED adapter
    /\ UNCHANGED <<model_map, clients, request, http_response, calls, events,
                   client>>
    /\ UNCHANGED outside_openai

\* one turn of while let Some(Ok(response)) = response_stream.next().await,
\* or the end of the loop and the [DONE] event
chat_generate_stream_body ==
    /\ task_polled
    /\ adapter.endpoint = "chat"
    /\ pc = "await_body"
    /\ \E item \in next_items :
        /\ take(item)
        /\ IF item.tag = "ok"
           THEN /\ \E logprobs \in chat_create_logprobs(item.msg[1].tokens,
                                                         adapter.n_logprobs) :
                     events' = Append(events,
                                 ChunkEvent(chat_chunk(item.msg[1], logprobs,
                                                       adapter.prompt_tokens,
                                                       adapter.native.model_id)))
                /\ pc' = "await_body"
           ELSE /\ events' = Append(events, DoneEvent)
                /\ pc' = "done"
    /\ UNCHANGED <<model_map, clients, request, http_response, adapter, calls,
                   client>>
    /\ UNCHANGED outside_openai

(***************************************************************************)
(* TgisAdapter::generate_stream (completions): the generator.              *)
(***************************************************************************)
generate_stream_call ==
    /\ adapter.endpoint = "completion"
    /\ issue_generate_stream
    /\ UNCHANGED outside_openai

\* the call returns: .await.unwrap()
generate_stream_open ==
    /\ task_polled
    /\ adapter.endpoint = "completion"
    /\ pc = "await_call"
    /\ \E ok \in BOOLEAN :
        IF ok
        THEN /\ upstream' = "open"
             /\ pc' = "await_first"
        ELSE /\ upstream' = "failed"
             /\ pc' = "panicked"
    /\ UNCHANGED <<model_map, clients, request, http_response, adapter, calls,
                   received, events, client>>
    /\ UNCHANGED outside_openai

\* a slip: the input-tokens message is not read before the loop
header_messages_one(echo) == 1

\* how many messages the generator reads before its loop
header_messages(echo) == IF echo THEN 2 ELSE 1

\* the first message: input_token_count and, with echo, the input text
generate_stream_first ==
    /\ task_polled
    /\ adapter.endpoint = "completion"
    /\ pc = "await_first"
    /\ \E item \in next_items :
        /\ take(item)
        /\ IF item.tag = "ok"
           THEN /\ adapter' = [adapter EXCEPT
                                 !.prompt_tokens = first_prompt_tokens(item.msg[1]),
                                 !.input_text = IF adapter.echo
                                                THEN Some(item.msg[1].text)
                                                ELSE None]
                /\ pc' = IF header_messages(adapter.echo) = 2
                         THEN "await_second" ELSE "await_body"
           ELSE /\ pc' = "panicked"
                /\ UNCHANGED adapter
    /\ UNCHANGED <<model_map, clients, request, http_response, calls, events,
                   client>>
    /\ UNCHANGED outside_openai

\* with echo, the second message: the input tokens
generate_stream_second ==
    /\ task_polled
    /\ adapter.endpoint = "completion"
    /\ pc = "await_second"
    /\ \E item \in next_items :
        /\ take(item)
        /\ IF item.tag = "ok"
           THEN /\ adapter' = [adapter EXCEPT
                                 !.input_tokens = Some(item.msg[1].input_tokens)]
                /\ pc' = "await_body"
           ELSE /\ pc' = "panicked"
                /\ UNCHANGED adapter
    /\ UNCHANGED <<model_map, clients, request, http_response, calls, events,
                   client>>
    /\ UNCHANGED outside_openai

\* a slip: the buffered input text is never applied
chunk_text_no_prefix(input_text, response) == response.text

\* input_text.take() / input_tokens.take(): the prefix, used once
chunk_text(input_text, response) ==
    IF is_some(input_text) THEN input_text[1] \o response.text
    ELSE response.text

chunk_tokens(input_tokens, response) ==
    IF is_some(input_tokens) THEN input_tokens[1] \o response.tokens
    ELSE response.tokens

\* one turn of the while let loop, or its end and the [DONE] event
generate_stream_body ==
    /\ task_polled
    /\ adapter.endpoint = "completion"
    /\ pc = "await_body"
    /\ \E item \in next_items :
        /\ take(item)
        /\ IF item.tag = "ok"
           THEN /\ events' = Append(events,
                      ChunkEvent(completion_chunk(item.msg[1],
                          chunk_text(adapter.input_text, item.msg[1]),
                          chunk_tokens(adapter.input_tokens, item.msg[1]),
                          adapter.n_logprobs, adapter.prompt_tokens,
                          adapter.native.model_id)))
                /\ adapter' = [adapter EXCEPT !.input_text = None,
                                              !.input_tokens = None]
                /\ pc' = "await_body"
           ELSE /\ events' = Append(events, DoneEvent)
                /\ pc' = "done"
                /\ UNCHANGED adapter
    /\ UNCHANGED <<model_map, clients, request, http_response, calls, client>>
    /\ UNCHANGED outside_openai

(***************************************************************************)
(* The unary adapters, from the return of client.generate(..).             *)
(***************************************************************************)
\* the match of chat_generate: None stands for unimplemented!()
unary_finish_reason(sr) ==
    IF sr \in {"MaxTokens", "TokenLimit"} THEN Some("length")
    ELSE IF sr \in {"StopSequence", "EosToken"} THEN Some("stop")
    ELSE IF sr \in {"Cancelled", "TimeLimit", "Error"} THEN Some("abort")
    ELSE None

\* the match of generate (completions): None stands for unimplemented!()
completions_unary_finish_reason(sr) ==
    IF sr \in {"MaxTokens", "TokenLimit"} THEN Some("length")
    ELSE IF sr \in {"StopSequence", "EosToken"} THEN Some("stop")
    ELSE IF sr \in {"Cancelled", "TimeLimit", "Error"} THEN Some("abort")
    ELSE None

\* .unwrap() of the call, responses.swap_remove(0), unimplemented!()
unary_panics(reply) ==
    \/ ~reply.ok
    \/ reply.responses = <<>>
    \/ /\ adapter.endpoint = "chat"
       /\ unary_finish_reason(reply.responses[1].stop_reason) = None
    \/ /\ adapter.endpoint = "completion"
       /\ completions_unary_finish_reason(reply.responses[1].stop_reason) = None

unary_usage(response) ==
    Usage(response.generated_token_count, response.input_token_count,
          u32_add(response.input_token_count, response.generated_token_count))

ChatCompletionResponse(response, logprobs, model_id) ==
    [object |-> "chat.completion", model |-> model_id,
     message |-> [role |-> Some("assistant"), content |-> Some(response.text)],
     logprobs |-> logprobs,
     finish_reason |-> unary_finish_reason(response.stop_reason)[1],
     usage |-> unary_usage(response)]

CompletionResponse(response, n_logprobs, model_id) ==
    [object |-> "text_completion", model |-> model_id,
     text |-> Some(response.text),
     logprobs |-> completions_create_logprobs(
                      response.input_tokens \o response.tokens, n_logprobs),
     finish_reason |-> completions_unary_finish_reason(response.stop_reason),
     usage |-> Some(unary_usage(response))]

unary_return(reply, json) ==
    /\ received' = reply.responses
    /\ upstream' = IF reply.ok THEN "ended" ELSE "failed"
    /\ IF unary_panics(reply)
       THEN /\ pc' = "panicked"
            /\ UNCHANGED http_response
       ELSE /\ pc' = "responded"
            /\ http_response' = Some(HttpResponse(200, "", Some(json)))
    /\ UNCHANGED <<model_map, clients, request, adapter, calls, events, client>>

\* TgisAdapter::chat_generate, lines 124-160
chat_generate ==
    /\ task_polled
    /\ adapter.endpoint = "chat"
    /\ pc = "await_generate"
    /\ \E reply \in UnaryReplies :
        IF unary_panics(reply) THEN unary_return(reply, None)
        ELSE \E logprobs \in chat_create_logprobs(reply.responses[1].tokens,
                                                  adapter.n_logprobs) :
                unary_return(reply,
                    ChatCompletionResponse(reply.responses[1], logprobs,
                                           adapter.native.model_id))
    /\ UNCHANGED outside_openai

\* TgisAdapter::generate, lines 112-150
generate ==
    /\ task_polled
    /\ adapter.endpoint = "completion"
    /\ pc = "await_generate"
    /\ \E reply \in UnaryReplies :
        IF unary_panics(reply) THEN unary_return(reply, None)
        ELSE unary_return(reply,
                 CompletionResponse(reply.responses[1], adapter.n_logprobs,
                                    adapter.native.model_id))
    /\ UNCHANGED outside_openai

(***************************************************************************)
(* The specification.                                                      *)
(***************************************************************************)
\* POST /v1/chat/completions with any request body
post_chat_completions ==
    /\ pc = "idle"
    /\ \E req \in ChatCompletionRequests : chat_completions(req)
    /\ UNCHANGED outside_openai

\* POST /v1/completions with any request body
post_completions ==
    /\ pc = "idle"
    /\ \E req \in CompletionRequests : completions(req)
    /\ UNCHANGED outside_openai

Next ==
    \/ post_chat_completions
    \/ post_completions
    \/ chat_generate
    \/ generate
    \/ chat_generate_stream_call
    \/ chat_generate_stream_open
    \/ chat_generate_stream_first
    \/ chat_generate_stream_body
    \/ generate_stream_call
    \/ generate_stream_open
    \/ generate_stream_first
    \/ generate_stream_second
    \/ generate_stream_body
    \/ client_disconnect

Spec == Init /\ [][Next]_vars

(***************************************************************************)
(* The native RPC facades: the servicer methods.                           *)
(***************************************************************************)
\* the type of the response message of a method
ResponseType(method) ==
    CASE method = "generate" -> "BatchedGenerationResponse"
      [] method = "generate_stream" -> "Streaming<GenerationResponse>"
      [] method = "tokenize" -> "BatchedTokenizeResponse"
      [] method = "model_info" -> "ModelInfoResponse"
      [] method = "embedding_tasks_predict" -> "EmbeddingResults"
      [] method = "embedding_task_predict" -> "EmbeddingResult"
      [] method = "rerank_tasks_predict" -> "RerankResults"
      [] method = "rerank_task_predict" -> "RerankResult"
      [] method = "sentence_similarity_tasks_predict" -> "SentenceSimilarityResults"
      [] method = "sentence_similarity_task_predict" -> "SentenceSimilarityResult"
      [] method = "get_models_info" -> "ModelInfoResponse"

\* a slip: no method returns early
short_circuits_never(method, message) == FALSE

\* the early return of a method on an empty input
short_circuits(method, message) ==
    CASE method = "generate" -> message.requests = <<>>
      [] method = "generate_stream" -> message.request = None
      [] method = "tokenize" -> message.requests = <<>>
      [] method = "model_info" -> FALSE
      [] method = "embedding_tasks_predict" -> message.texts = <<>>
      [] method = "embedding_task_predict" -> message.text = ""
      [] method = "rerank_tasks_predict" ->
           message.documents = <<>> \/ message.queries = <<>>
      [] method = "rerank_task_predict" ->
           message.documents = <<>> \/ message.query = ""
      [] method = "sentence_similarity_tasks_predict" ->
           message.source_sentences = <<>> \/ message.sentences = <<>>
      [] method = "sentence_similarity_task_predict" ->
           message.source_sentence = "" \/ message.sentences = <<>>
      [] method = "get_models_info" -> message.model_ids = <<>>

\* what the early return answers
short_circuit_result(method) ==
    IF method = "generate_stream"
    THEN RpcErr(Status("InvalidArgument", "missing request"))
    ELSE RpcOk(Response(ResponseType(method), <<>>))

\* extract_model_id: Err without the header, a panic on a value that is not
\* visible ASCII (to_str().unwrap()), else the model id
Extracted(tag, model_id, status) ==
    [tag |-> tag, model_id |-> model_id, status |-> status]

\* a slip: the header is read with a default in place of the check
extract_model_id_defaulted(req) ==
    IF req.metadata.mm_model_id = None
    THEN Extracted("ok", "", NoStatus)
    ELSE IF to_str(req.metadata.mm_model_id[1]) = None
    THEN Extracted("panic", "", NoStatus)
    ELSE Extracted("ok", to_str(req.metadata.mm_model_id[1])[1], NoStatus)

extract_model_id(req) ==
    IF req.metadata.mm_model_id = None
    THEN Extracted("err", "",
                   Status("InvalidArgument", "Missing required model ID"))
    ELSE IF to_str(req.metadata.mm_model_id[1]) = None
    THEN Extracted("panic", "", NoStatus)
    ELSE Extracted("ok", to_str(req.metadata.mm_model_id[1])[1], NoStatus)

\* a slip: the lookup takes a client for any id
servicer_client_unchecked(registry, model_id) == None

\* GenerationServicer::client, NlpServicer::client, InfoServicer::client:
\* the error of the lookup, None when the registry has the client
servicer_client(registry, model_id) ==
    IF model_id \in registry THEN None
    ELSE Some(Status("NotFound", "Unrecognized model_id: " \o model_id))

\* an upstream call: the client it is made on, the method and the request
RpcCall(model_id, method, forwarded) ==
    [client |-> model_id, method |-> method, request |-> forwarded]

\* a slip: the request is rebuilt from its message, without the metadata
forwarded_request_rebuilt(req) ==
    [metadata |-> Metadata(None), message |-> req.message]

\* the forwarding methods pass the Request they were given
forwarded_request(req) ==
    [metadata |-> req.metadata, message |-> req.message]

\* a slip: an upstream error is wrapped in a status of the router's own
forward_result_wrapped(reply) ==
    IF reply.ok THEN reply
    ELSE RpcErr(Status("Internal", "upstream call failed"))

\* the forwarding methods return what the awaited call returned
forward_result(reply) == reply

\* what upstream can answer to a forwarded call
UpstreamReplies(method) ==
    { RpcErr(Status("Unavailable", "upstream down")),
      RpcOk(Response(ResponseType(method), <<>>)),
      RpcOk(Response(ResponseType(method), <<"r">>)) }

\* the method returns result to its caller
rpc_return(req, result) ==
    /\ rpc_request' = Some(req)
    /\ rpc_response' = Some(result)
    /\ rpc_pc' = "done"
    /\ UNCHANGED <<rpc_calls, rpc_replies, results>>

\* the task serving the RPC panics: the caller gets no response
rpc_panics(req) ==
    /\ rpc_request' = Some(req)
    /\ rpc_pc' = "panicked"
    /\ UNCHANGED <<rpc_calls, rpc_replies, results, rpc_response>>

\* a slip: the lookup takes the clients out of the servicer (mem::take)
borrowed_taken(registry) == {}

\* self.clients.get(..).clone() on &self: the registry stays as it is
borrowed(registry) == registry

\* every method of NlpServicer and InfoServicer takes &self
servicers_borrowed ==
    servicers' = [s \in DOMAIN servicers |-> borrowed(servicers[s])]

\* self.client(model_id).await?.method(request), up to the await of the call
dispatch(req, model_id) ==
    LET missing == servicer_client(servicer_clients(req.service), model_id)
    IN  IF is_some(missing) THEN rpc_return(req, RpcErr(missing[1]))
        ELSE /\ rpc_request' = Some(req)
             /\ rpc_calls' = Append(rpc_calls,
                                 RpcCall(model_id, req.method,
                                         forwarded_request(req)))
             /\ rpc_pc' = "await"
             /\ UNCHANGED <<rpc_replies, results, rpc_response>>

\* a method of GenerationServicer: routed by the model_id of the message
generation_method(req) ==
    IF short_circuits(req.method, req.message)
    THEN rpc_return(req, short_circuit_result(req.method))
    ELSE dispatch(req, req.message.model_id)

\* a forwarding method of NlpServicer: routed by the mm-model-id header
nlp_method(req) ==
    LET model_id == extract_model_id(req)
    IN  IF model_id.tag = "err" THEN rpc_return(req, RpcErr(model_id.status))
        ELSE IF model_id.tag = "panic" THEN rpc_panics(req)
        ELSE IF short_circuits(req.method, req.message)
        THEN rpc_return(req, short_circuit_result(req.method))
        ELSE dispatch(req, model_id.model_id)

\* GenerationServicer::generate, up to its await
GenerationServicer_generate ==
    /\ rpc_pc = "idle"
    /\ \E req \in GenerationRequests :
        req.method = "generate" /\ generation_method(req)
    /\ UNCHANGED <<outside_rpc, servicers>>

\* GenerationServicer::generate_stream, up to its await
GenerationServicer_generate_stream ==
    /\ rpc_pc = "idle"
    /\ \E req \in GenerationRequests :
        req.method = "generate_stream" /\ generation_method(req)
    /\ UNCHANGED <<outside_rpc, servicers>>

\* GenerationServicer::tokenize, up to its await
GenerationServicer_tokenize ==
    /\ rpc_pc = "idle"
    /\ \E req \in GenerationRequests :
        req.method = "tokenize" /\ generation_method(req)
    /\ UNCHANGED <<outside_rpc, servicers>>

\* GenerationServicer::model_info, up to its await
GenerationServicer_model_info ==
    /\ rpc_pc = "idle"
    /\ \E req \in GenerationRequests :
        req.method = "model_info" /\ generation_method(req)
    /\ UNCHANGED <<outside_rpc, servicers>>

\* NlpServicer::embedding_tasks_predict, up to its await
embedding_tasks_predict ==
    /\ rpc_pc = "idle"
    /\ \E req \in NlpRequests :
        req.method = "embedding_tasks_predict" /\ nlp_method(req)
    /\ servicers_borrowed
    /\ UNCHANGED outside_rpc

\* NlpServicer::embedding_task_predict, up to its await
embedding_task_predict ==
    /\ rpc_pc = "idle"
    /\ \E req \in NlpRequests :
        req.method = "embedding_task_predict" /\ nlp_method(req)
    /\ servicers_borrowed
    /\ UNCHANGED outside_rpc

\* NlpServicer::rerank_tasks_predict, up to its await
rerank_tasks_predict ==
    /\ rpc_pc = "idle"
    /\ \E req \in NlpRequests :
        req.method = "rerank_tasks_predict" /\ nlp_method(req)
    /\ servicers_borrowed
    /\ UNCHANGED outside_rpc

\* NlpServicer::rerank_task_predict, up to its await
rerank_task_predict ==
    /\ rpc_pc = "idle"
    /\ \E req \in NlpRequests :
        req.method = "rerank_task_predict" /\ nlp_method(req)
    /\ servicers_borrowed
    /\ UNCHANGED outside_rpc

\* NlpServicer::sentence_similarity_tasks_predict, up to its await
sentence_similarity_tasks_predict ==
    /\ rpc_pc = "idle"
    /\ \E req \in NlpRequests :
        req.method = "sentence_similarity_tasks_predict" /\ nlp_method(req)
    /\ servicers_borrowed
    /\ UNCHANGED outside_rpc

\* NlpServicer::sentence_similarity_task_predict, up to its await
sentence_similarity_task_predict ==
    /\ rpc_pc = "idle"
    /\ \E req \in NlpRequests :
        req.method = "sentence_similarity_task_predict" /\ nlp_method(req)
    /\ servicers_borrowed
    /\ UNCHANGED outside_rpc

\* the awaited upstream call of a forwarding method returns
forward_reply ==
    /\ rpc_pc = "await"
    /\ rpc_request[1].service # "info"
    /\ \E reply \in UpstreamReplies(rpc_request[1].method) :
        /\ rpc_replies' = Append(rpc_replies, reply)
        /\ rpc_response' = Some(forward_result(reply))
    /\ rpc_pc' = "done"
    /\ UNCHANGED <<outside_rpc, servicers, rpc_request, rpc_calls, results>>

\* the request of a sub-call: tonic::Request::new of a one-id message
sub_request(model) ==
    [metadata |-> Metadata(None), message |-> [model_ids |-> <<model>>]]

\* what the info service of model can answer to a sub-call
InfoReplies(model) ==
    { RpcErr(Status("Unavailable", "upstream down")) }
    \cup { RpcOk(Response("ModelInfoResponse", models)) :
           models \in { <<>>, <<model \o ".1">>,
                        <<model \o ".1", model \o ".2">> } }

\* a slip: a failed sub-call is skipped
sub_call_skipped(reply) == FALSE

\* client.get_models_info(request).await?: an Err ends the method
sub_call_aborts(reply) == ~reply.ok

RECURSIVE extend_all(_, _)
\* for res in results: models_responses.extend(res.models)
extend_all(models, remaining) ==
    IF remaining = <<>> THEN models
    ELSE extend_all(models \o remaining[1].items,
                    SubSeq(remaining, 2, Len(remaining)))

RECURSIVE prepend_all(_, _)
prepend_all(models, remaining) ==
    IF remaining = <<>> THEN models
    ELSE prepend_all(remaining[1].items \o models,
                     SubSeq(remaining, 2, Len(remaining)))

\* a slip: each response's models are put in front of those collected
models_responses_prepended(pushed) == prepend_all(<<>>, pushed)

\* the aggregated models of the responses pushed
models_responses(pushed) == extend_all(<<>>, pushed)

\* iteration i of the loop over model_ids, up to the await of its sub-call;
\* past the last id, the aggregated response
info_iteration(req, i) ==
    IF i > Len(req.message.model_ids)
    THEN /\ rpc_response' = Some(RpcOk(Response("ModelInfoResponse",
                                               models_responses(results'))))
         /\ rpc_pc' = "done"
         /\ UNCHANGED rpc_calls
    ELSE LET model == req.message.model_ids[i]
             missing == servicer_client(servicer_clients("info"), model)
         IN  IF is_some(missing)
             THEN /\ rpc_response' = Some(RpcErr(missing[1]))
                  /\ rpc_pc' = "done"
                  /\ UNCHANGED rpc_calls
             ELSE /\ rpc_calls' = Append(rpc_calls,
                                      RpcCall(model, "get_models_info",
                                              sub_request(model)))
                  /\ rpc_pc' = "await"
                  /\ UNCHANGED rpc_response

\* InfoServicer::get_models_info, up to its first await
get_models_info ==
    /\ rpc_pc = "idle"
    /\ \E req \in InfoRequests :
        /\ rpc_request' = Some(req)
        /\ results' = <<>>
        /\ IF short_circuits(req.method, req.message)
           THEN /\ rpc_response' = Some(short_circuit_result(req.method))
                /\ rpc_pc' = "done"
                /\ UNCHANGED rpc_calls
           ELSE info_iteration(req, 1)
    /\ servicers_borrowed
    /\ UNCHANGED <<outside_rpc, rpc_replies>>

\* the awaited sub-call returns: the method ends with its error, or pushes
\* its response and goes on with the next model id
get_models_info_reply ==
    /\ rpc_pc = "await"
    /\ rpc_request[1].service = "info"
    /\ \E reply \in InfoReplies(rpc_calls[Len(rpc_calls)].client) :
        /\ rpc_replies' = Append(rpc_replies, reply)
        /\ IF sub_call_aborts(reply)
           THEN /\ rpc_response' = Some(RpcErr(reply.status))
                /\ rpc_pc' = "done"
                /\ UNCHANGED <<rpc_calls, results>>
           ELSE /\ results' = Append(results, reply.response)
                /\ info_iteration(rpc_request[1], Len(rpc_calls) + 1)
    /\ servicers_borrowed
    /\ UNCHANGED <<outside_rpc, rpc_request>>

NextRpc ==
    \/ GenerationServicer_generate
    \/ GenerationServicer_generate_stream
    \/ GenerationServicer_tokenize
    \/ GenerationServicer_model_info
    \/ embedding_tasks_predict
    \/ embedding_task_predict
    \/ rerank_tasks_predict
    \/ rerank_task_predict
    \/ sentence_similarity_tasks_predict
    \/ sentence_similarity_task_predict
    \/ forward_reply
    \/ get_models_info
    \/ get_models_info_reply

\* the native RPC facades, one exchange at a time
SpecRpc == Init /\ [][NextRpc]_vars

(***************************************************************************)
(* Both facades behind one router, request after request.                  *)
(***************************************************************************)
\* the handler of the OpenAI request has ended
exchange_over == pc \in {"done", "panicked", "responded"}

\* the servicer method has ended
rpc_exchange_over == rpc_pc \in {"done", "panicked"}

\* the servers go on serving: the state of the finished exchange is dropped,
\* the registries and the templates stay with the router
next_request ==
    /\ exchange_over \/ rpc_exchange_over
    /\ request' = None
    /\ pc' = "idle"
    /\ http_response' = None
    /\ adapter' = NoAdapter
    /\ calls' = <<>>
    /\ upstream' = "none"
    /\ received' = <<>>
    /\ events' = <<>>
    /\ client' = "connected"
    /\ rpc_request' = None
    /\ rpc_pc' = "idle"
    /\ rpc_calls' = <<>>
    /\ rpc_replies' = <<>>
    /\ results' = <<>>
    /\ rpc_response' = None
    /\ UNCHANGED <<model_map, clients, servicers, conv_vars, startup_vars>>

\* a request of either facade is served next to an idle other facade
NextServe ==
    \/ rpc_pc = "idle" /\ Next
    \/ pc = "idle" /\ NextRpc
    \/ next_request

SpecServe == Init /\ [][NextServe]_vars

(***************************************************************************)
(* The conversion functions of the OpenAI adapters, one call at a time.    *)
(***************************************************************************)
\* a call of a conversion function with its arguments
ConvCall(function, arguments) == [function |-> function, args |-> arguments]

\* every stop reason the native response can carry
StopReasonCalls ==
    { ConvCall("stop_reason", [stop_reason |-> sr]) : sr \in StopReasons }

\* temperatures are counted in millionths: 1000000 stands for 1.0
DefaultTemperature == 1000000

\* the threshold below which a temperature counts as zero, in millionths
SAMPLING_EPS == 10

\* temperatures below, at and above the threshold, 0.7 and 1.0
Temperatures == {0, SAMPLING_EPS - 1, SAMPLING_EPS, SAMPLING_EPS + 1, 700000,
                 DefaultTemperature}

Seeds == {42}

\* the fields of a request that decide the decoding method
SamplingFields ==
    { [temperature |-> t, seed |-> sd] :
        t \in {None} \cup { Some(x) : x \in Temperatures },
        sd \in {None} \cup { Some(x) : x \in Seeds } }

\* a slip: the seed is not looked at
completion_decoding_method_unseeded(req) ==
    IF unwrap_or(req.temperature, DefaultTemperature) >= SAMPLING_EPS
    THEN "Sample" ELSE "Greedy"

\* From<ChatCompletionRequest> for Parameters: let method = ..
chat_decoding_method(req) ==
    LET temperature == unwrap_or(req.temperature, DefaultTemperature)
    IN  IF temperature >= SAMPLING_EPS \/ is_some(req.seed)
        THEN "Sample" ELSE "Greedy"

\* From<CompletionRequest> for Parameters: let method = ..
completion_decoding_method(req) ==
    LET temperature == unwrap_or(req.temperature, DefaultTemperature)
    IN  IF temperature >= SAMPLING_EPS \/ is_some(req.seed)
        THEN "Sample" ELSE "Greedy"

DecodingMethodCalls == { ConvCall("decoding_method", f) : f \in SamplingFields }

ResponseOptionsCalls ==
    { ConvCall("response_options", req) :
        req \in ChatCompletionRequests \cup CompletionRequests }

\* the logprob values of the modelled tokens
Logprobs == {1, 2, 3}

TopTokens == { TopToken(text, logprob) : text \in {"a", "b"}, logprob \in Logprobs }

\* a generated token with up to MaxTopTokens alternatives; two token ids may
\* decode to one text, so a text can come twice with different logprobs
TokenInfos ==
    { TokenInfo(text, logprob, top_tokens) :
        text \in {"a"}, logprob \in Logprobs,
        top_tokens \in SeqsUpTo(TopTokens, MaxTopTokens) }

\* Vec<TokenInfo>: no token, one token, and a second token after it
TokenLists ==
    {<<>>} \cup { <<t>> : t \in TokenInfos }
           \cup { <<t, TokenInfo("b", 2, <<TopToken("a", 1)>>)>> : t \in TokenInfos }

LogprobsCalls ==
    { ConvCall(function, [tokens |-> tokens, n_logprobs |-> n]) :
        function \in {"chat_create_logprobs", "completions_create_logprobs"},
        tokens \in TokenLists, n \in {0, 2} }

\* ModelMap::generation and ModelMap::embeddings of a loaded model map
ModelMapCalls ==
    { ConvCall("model_map", [model_map |-> mm]) : mm \in LoadedModelMaps }

\* conversations for ChatTemplate::render: alternating ones of one to three
\* messages, and two that the template's guards reject
RenderCalls ==
    { ConvCall("render", [messages |-> ms]) :
        ms \in { <<Message("user", "Hey")>>,
                 <<Message("user", "Hey"), Message("assistant", "Good.")>>,
                 <<Message("user", "Hey"), Message("assistant", "Good."),
                   Message("user", "testing")>>,
                 <<Message("assistant", "Good.")>>,
                 <<Message("user", "Hey"), Message("system", "x")>> } }

ConvCalls ==
    StopReasonCalls \cup DecodingMethodCalls \cup ResponseOptionsCalls
        \cup LogprobsCalls \cup ModelMapCalls \cup RenderCalls

\* the function has been given its arguments and has not returned yet
conv_called(function) ==
    /\ is_some(conv_in)
    /\ conv_out = None
    /\ conv_in[1].function = function

\* the four matches on response.stop_reason()
match_stop_reason ==
    /\ conv_called("stop_reason")
    /\ conv_out' = Some(
           [chat |-> unary_finish_reason(conv_in[1].args.stop_reason),
            chat_stream |-> stream_finish_reason(conv_in[1].args.stop_reason),
            completions |-> completions_unary_finish_reason(conv_in[1].args.stop_reason),
            completions_stream |->
                completions_stream_finish_reason(conv_in[1].args.stop_reason)])
    /\ UNCHANGED <<conv_in, outside_conv>>

\* Parameters::from of a chat and of a completion request: the method
decoding_method ==
    /\ conv_called("decoding_method")
    /\ conv_out' = Some(
           [chat |-> chat_decoding_method(conv_in[1].args),
            completions |-> completion_decoding_method(conv_in[1].args)])
    /\ UNCHANGED <<conv_in, outside_conv>>

\* Parameters::from of a chat or a completion request: the response options
response_options ==
    /\ conv_called("response_options")
    /\ conv_out' = Some(
           IF conv_in[1].args.kind = "chat"
           THEN chat_response_options(conv_in[1].args)
           ELSE completion_response_options(conv_in[1].args))
    /\ UNCHANGED <<conv_in, outside_conv>>

\* chat.rs create_logprobs(tokens, n_logprobs)
chat_logprobs ==
    /\ conv_called("chat_create_logprobs")
    /\ \E logprobs \in chat_create_logprobs(conv_in[1].args.tokens,
                                            conv_in[1].args.n_logprobs) :
        conv_out' = Some(logprobs)
    /\ UNCHANGED <<conv_in, outside_conv>>

\* completions.rs create_logprobs(tokens, n_logprobs)
completions_logprobs ==
    /\ conv_called("completions_create_logprobs")
    /\ conv_out' = Some(completions_create_logprobs(conv_in[1].args.tokens,
                                                    conv_in[1].args.n_logprobs))
    /\ UNCHANGED <<conv_in, outside_conv>>

\* ModelMap::generation and ModelMap::embeddings of a loaded model map
model_map_accessors ==
    /\ conv_called("model_map")
    /\ conv_out' = Some(
           [generation |-> generation(conv_in[1].args.model_map),
            embeddings |-> embeddings(conv_in[1].args.model_map)])
    /\ UNCHANGED <<conv_in, outside_conv>>

\* ChatTemplate::render; an absent result is the template's raise_exception
render ==
    /\ conv_called("render")
    /\ conv_out' = Some([prompt |-> template_render(conv_in[1].args.messages)])
    /\ UNCHANGED <<conv_in, outside_conv>>

InitConv ==
    /\ serving_idle
    /\ conv_in \in { Some(call) : call \in ConvCalls }
    /\ conv_out = None
    /\ startup_done

NextConv ==
    \/ match_stop_reason
    \/ decoding_method
    \/ response_options
    \/ chat_logprobs
    \/ completions_logprobs
    \/ model_map_accessors
    \/ render

\* the conversion functions, each applied to each of its inputs
SpecConv == InitConv /\ [][NextConv]_vars

(***************************************************************************)
(* run(): TLS, the upstream clients, the two servers, the signals.         *)
(***************************************************************************)
\* what run() and the servers leave alone
outside_startup ==
    <<model_map, request, pc, http_response, adapter, calls, upstream,
      received, events, client, rpc_vars, conv_vars>>

\* the process is alive: run() has neither returned nor panicked
running == run_pc \notin {"returned", "panicked"}

\* run() panics: the process ends with a nonzero exit code
run_panics(error) ==
    /\ run_pc' = "panicked"
    /\ run_error' = error

\* run(), lines 61-88
run_configure_tls ==
    /\ run_pc = "tls"
    /\ IF configure_tls(args).ok
       THEN /\ client_tls' = configure_tls(args).value
            /\ run_pc' = "clients"
            /\ UNCHANGED run_error
       ELSE /\ run_panics(configure_tls(args).error)
            /\ UNCHANGED client_tls
    /\ UNCHANGED <<args, grpc_finished, channels, upstream_clients, grpc_server, http_server,
                   signal, clients, outside_startup>>

\* run(), lines 90-117: the channels are built concurrently and each may fail
run_create_clients ==
    /\ run_pc = "clients"
    /\ \E built \in [DOMAIN args.model_map -> {"ok", "failed"}] :
       \E first_failed \in DOMAIN args.model_map :
        /\ (\E name \in DOMAIN built : built[name] = "failed")
               => built[first_failed] = "failed"
        /\ channels' = built
        /\ LET joined == try_join_all(args.default_target_port, client_tls,
                                      args.model_map, built, first_failed)
           IN  IF joined.ok
               THEN /\ upstream_clients' = Some(joined.value)
                    /\ clients' = create_clients(DOMAIN joined.value)
                    /\ run_pc' = "spawn"
                    /\ UNCHANGED run_error
               ELSE /\ run_panics(joined.error)
                    /\ UNCHANGED <<upstream_clients, clients>>
    /\ UNCHANGED <<args, grpc_finished, client_tls, grpc_server, http_server, signal,
                   outside_startup>>

\* run(), lines 119-129: tokio::spawn of the gRPC server, then the sleep
run_spawn_grpc_server ==
    /\ run_pc = "spawn"
    /\ grpc_server' = "starting"
    /\ run_pc' = "sleep"
    /\ UNCHANGED <<args, grpc_finished, client_tls, channels, upstream_clients, http_server,
                   signal, run_error, clients, outside_startup>>

\* serve_with_shutdown(grpc_addr, ..): the listener is bound, or the task
\* ends with the transport error
grpc_server_binds ==
    /\ running
    /\ grpc_server = "starting"
    /\ grpc_server' \in {"running", "failed"}
    /\ UNCHANGED <<args, grpc_finished, run_pc, client_tls, channels, upstream_clients,
                   http_server, signal, run_error, clients, outside_startup>>

\* the accept loop of the gRPC server ends with an error
grpc_server_fails ==
    /\ running
    /\ grpc_server \in {"running", "signalled"}
    /\ grpc_server' = "failed"
    /\ UNCHANGED <<args, grpc_finished, run_pc, client_tls, channels, upstream_clients,
                   http_server, signal, run_error, clients, outside_startup>>

\* the signals that ask a process of this platform to end
Signals == IF args.unix THEN {"interrupt", "terminate"} ELSE {"interrupt"}

\* a slip: only Ctrl+C is listened to
shutdown_signal_ctrl_c == {"interrupt"}

\* shutdown_signal(): select! of ctrl_c and, on Unix, of SignalKind::terminate
shutdown_signal ==
    {"interrupt"} \cup (IF args.unix THEN {"terminate"} ELSE {})

\* a server whose shutdown_signal() is being polled is notified
notified(server, kind) ==
    IF server = "running" /\ kind \in shutdown_signal THEN "signalled"
    ELSE server

\* the process gets a signal while a server of it listens
signal_delivered ==
    /\ running
    /\ grpc_server = "running" \/ http_server = "running"
    /\ \E kind \in Signals :
        /\ signal' = kind
        /\ grpc_server' = notified(grpc_server, kind)
        /\ http_server' = notified(http_server, kind)
    /\ UNCHANGED <<args, grpc_finished, run_pc, client_tls, channels,
                   upstream_clients, run_error, clients, outside_startup>>

\* shutdown_signal() of the gRPC server completes: graceful shutdown begins
grpc_server_shutdown_signal ==
    /\ running
    /\ grpc_server = "signalled"
    /\ grpc_server' = "draining"
    /\ UNCHANGED <<args, grpc_finished, run_pc, client_tls, channels, upstream_clients,
                   http_server, signal, run_error, clients, outside_startup>>

\* the requests in flight at the gRPC server have ended: the task ends with Ok
grpc_server_drained ==
    /\ running
    /\ grpc_server = "draining"
    /\ grpc_server' = "stopped"
    /\ UNCHANGED <<args, grpc_finished, run_pc, client_tls, channels, upstream_clients,
                   http_server, signal, run_error, clients, outside_startup>>

\* run(), lines 131-137: the sleep has elapsed and the task is looked at
run_startup_probe ==
    /\ run_pc = "sleep"
    /\ grpc_finished' = Some(grpc_server \in {"stopped", "failed"})
    /\ IF grpc_server = "failed"
       THEN run_panics(Some(PanicInfo("gRPC server startup failed",
                                      Some(<<"transport error">>))))
       ELSE IF grpc_server = "stopped"
       THEN run_panics(Some(PanicInfo("explicit panic", None)))
       ELSE /\ run_pc' = "bind_http"
            /\ UNCHANGED run_error
    /\ UNCHANGED <<args, client_tls, channels, upstream_clients, grpc_server,
                   http_server, signal, clients, outside_startup>>

\* run(), lines 139-147: axum::Server::bind(&http_addr) panics when the
\* address cannot be bound
run_bind_http_server ==
    /\ run_pc = "bind_http"
    /\ \/ /\ http_server' = "running"
          /\ run_pc' = "await_http"
          /\ UNCHANGED run_error
       \/ /\ run_panics(Some(PanicInfo("error binding", None)))
          /\ UNCHANGED http_server
    /\ UNCHANGED <<args, grpc_finished, client_tls, channels, upstream_clients, grpc_server,
                   signal, clients, outside_startup>>

\* the accept loop of the HTTP server ends with an error
http_server_fails ==
    /\ running
    /\ http_server \in {"running", "signalled"}
    /\ http_server' = "failed"
    /\ UNCHANGED <<args, grpc_finished, run_pc, client_tls, channels, upstream_clients,
                   grpc_server, signal, run_error, clients, outside_startup>>

\* shutdown_signal() of the HTTP server completes: graceful shutdown begins
http_server_shutdown_signal ==
    /\ running
    /\ http_server = "signalled"
    /\ http_server' = "draining"
    /\ UNCHANGED <<args, grpc_finished, run_pc, client_tls, channels, upstream_clients,
                   grpc_server, signal, run_error, clients, outside_startup>>

\* the requests in flight at the HTTP server have ended
http_server_drained ==
    /\ running
    /\ http_server = "draining"
    /\ http_server' = "stopped"
    /\ UNCHANGED <<args, grpc_finished, run_pc, client_tls, channels, upstream_clients,
                   grpc_server, signal, run_error, clients, outside_startup>>

\* a slip: run() waits for whichever of the two servers ends first
run_either_server_ended ==
    /\ run_pc = "await_http"
    /\ \/ /\ http_server \in {"stopped", "failed"}
          /\ IF http_server = "failed"
             THEN run_panics(Some(PanicInfo("HTTP server crashed!",
                                            Some(<<"hyper error">>))))
             ELSE /\ run_pc' = "await_grpc"
                  /\ UNCHANGED run_error
       \/ /\ grpc_server = "failed"
          /\ run_panics(Some(PanicInfo("gRPC server crashed",
                                        Some(<<"transport error">>))))
    /\ UNCHANGED <<args, grpc_finished, client_tls, channels, upstream_clients, grpc_server,
                   http_server, signal, clients, outside_startup>>

\* run(), line 148: server.await.expect("HTTP server crashed!")
run_http_server_ended ==
    /\ run_pc = "await_http"
    /\ http_server \in {"stopped", "failed"}
    /\ IF http_server = "failed"
       THEN run_panics(Some(PanicInfo("HTTP server crashed!",
                                      Some(<<"hyper error">>))))
       ELSE /\ run_pc' = "await_grpc"
            /\ UNCHANGED run_error
    /\ UNCHANGED <<args, grpc_finished, client_tls, channels, upstream_clients, grpc_server,
                   http_server, signal, clients, outside_startup>>

\* run(), line 150: grpc_server_handle.await.unwrap().expect(..)
run_grpc_server_ended ==
    /\ run_pc = "await_grpc"
    /\ grpc_server \in {"stopped", "failed"}
    /\ IF grpc_server = "failed"
       THEN run_panics(Some(PanicInfo("gRPC server crashed",
                                      Some(<<"transport error">>))))
       ELSE /\ run_pc' = "returned"
            /\ UNCHANGED run_error
    /\ UNCHANGED <<args, grpc_finished, client_tls, channels, upstream_clients, grpc_server,
                   http_server, signal, clients, outside_startup>>

\* main() calls run(): nothing is configured and no server exists
InitStartup ==
    /\ model_map \in ModelMaps
    /\ clients = {}
    /\ request = None
    /\ pc = "idle"
    /\ http_response = None
    /\ adapter = NoAdapter
    /\ calls = <<>>
    /\ upstream = "none"
    /\ received = <<>>
    /\ events = <<>>
    /\ client = "connected"
    /\ rpc_idle
    /\ conv_idle
    /\ args \in RunArgs(model_map.generation)
    /\ run_pc = "tls"
    /\ grpc_finished = None
    /\ client_tls = None
    /\ channels = <<>>
    /\ upstream_clients = None
    /\ grpc_server = "not_started"
    /\ http_server = "not_bound"
    /\ signal = "none"
    /\ run_error = None

NextStartup ==
    \/ run_configure_tls
    \/ run_create_clients
    \/ run_spawn_grpc_server
    \/ grpc_server_binds
    \/ grpc_server_fails
    \/ signal_delivered
    \/ grpc_server_shutdown_signal
    \/ grpc_server_drained
    \/ run_startup_probe
    \/ run_bind_http_server
    \/ http_server_fails
    \/ http_server_shutdown_signal
    \/ http_server_drained
    \/ run_http_server_ended
    \/ run_grpc_server_ended

\* run() from its call to its end
SpecStartup == InitStartup /\ [][NextStartup]_vars

\* the runtime polls a task that can go on, and the requests in flight at a
\* server that shuts down come to an end
SpecShutdown ==
    /\ InitStartup
    /\ [][NextStartup]_vars
    /\ WF_vars(grpc_server_shutdown_signal)
    /\ WF_vars(grpc_server_drained)
    /\ WF_vars(http_server_shutdown_signal)
    /\ WF_vars(http_server_drained)
    /\ WF_vars(run_http_server_ended)
    /\ WF_vars(run_grpc_server_ended)

(***************************************************************************)
(* Vocabulary of the properties.                                           *)
(***************************************************************************)
\* an adapter is streaming: its generator has issued generate_stream
Streaming(endpoint) ==
    /\ adapter.endpoint = endpoint
    /\ calls # <<>>
    /\ calls[1].method = "generate_stream"

DoneCount == Cardinality({ i \in 1..Len(events) : events[i].kind = "done" })

ChunkIndexes == { i \in 1..Len(events) : events[i].kind = "chunk" }

\* the messages the generator read before its loop
Headers == IF adapter.endpoint = "completion" /\ adapter.echo THEN 2 ELSE 1

\* the event position of the first chunk built from a body message
FirstBodyEvent == IF adapter.endpoint = "chat" THEN 2 ELSE 1

\* the chunk events built from body messages, in the order of their emission
BodyChunks ==
    [i \in 1..Cardinality({ j \in ChunkIndexes : j >= FirstBodyEvent }) |->
        events[FirstBodyEvent + i - 1].chunk]

RECURSIVE Concat(_)
Concat(strings) ==
    IF strings = <<>> THEN ""
    ELSE strings[1] \o Concat(SubSeq(strings, 2, Len(strings)))

Flagged(req) == is_some(req.best_of) \/ req.use_beam_search = Some(TRUE)

\* the handler of req's endpoint takes req (an action)
Handles(req) ==
    IF req.kind = "chat" THEN chat_completions(req) ELSE completions(req)

Requests == ChatCompletionRequests \cup CompletionRequests

(***************************************************************************)
(* C1.  If the upstream stream yields an error after at least one SSE      *)
(* event was emitted, the SSE stream ends without a [DONE] event.          *)
(* The code does not do this: the while let loop ends on Some(Err(_)) as   *)
(* it does on None, and [DONE] follows.                                    *)
(***************************************************************************)
C1_NoDoneAfterError ==
    (upstream = "error" /\ ChunkIndexes # {}) => DoneCount = 0

\* the claim holds of the code only where the error strikes a header message
C1_ErrorInHeaderNoDone ==
    (upstream = "error" /\ pc = "panicked") => DoneCount = 0

(***************************************************************************)
(* C2.  For a streamed chat response whose upstream stream completes       *)
(* normally, the first event is the role-only chunk, the last event is     *)
(* [DONE], and [DONE] is emitted exactly once.                             *)
(* The code breaks this for an upstream stream that completes with no      *)
(* message: the unwrap of the first message panics (see C37).              *)
(***************************************************************************)
C2_RoleFirstDoneLast ==
    (Streaming("chat") /\ upstream = "ended") =>
        /\ events # <<>>
        /\ events[1] = ChunkEvent(chat_role_chunk(adapter.native.model_id))
        /\ events[Len(events)].kind = "done"
        /\ DoneCount = 1

\* what the code does guarantee: the claim, once the first message arrived
C2_RoleFirstDoneLastAfterHeader ==
    (Streaming("chat") /\ upstream = "ended" /\ received # <<>>) =>
        /\ events[1] = ChunkEvent(chat_role_chunk(adapter.native.model_id))
        /\ events[Len(events)].kind = "done"
        /\ DoneCount = 1

(***************************************************************************)
(* C3.  In a streamed chat response, the delta.content of the chunk events *)
(* after the role-only opener, concatenated in order, equal the text       *)
(* fields of the upstream messages after the first, concatenated in order. *)
(***************************************************************************)
C3_ContentConcat ==
    Streaming("chat") =>
        Concat([i \in 1..Len(BodyChunks) |->
                   unwrap_or(BodyChunks[i].delta.content, "")])
        = Concat([i \in 1..(Len(received) - 1) |-> received[i + 1].text])

C3_Witness ==
    /\ Streaming("chat")
    /\ pc = "done"
    /\ Len(BodyChunks) = 2
    /\ Concat([i \in 1..Len(BodyChunks) |->
                  unwrap_or(BodyChunks[i].delta.content, "")]) = "ab"

(***************************************************************************)
(* C4.  In both streaming adapters the i-th JSON chunk is built from the   *)
(* i-th body message (the messages after the consumed header messages):    *)
(* there are as many chunks as body messages read, and the i-th carries    *)
(* the text, the finish reason and the token count of the i-th.            *)
(***************************************************************************)
\* the text a chunk carries, whichever the endpoint
ChunkText(chunk) ==
    IF adapter.endpoint = "chat" THEN unwrap_or(chunk.delta.content, "")
    ELSE unwrap_or(chunk.text, "")

\* the echoed input text the first completions chunk starts with
EchoPrefix(i) ==
    IF adapter.endpoint = "completion" /\ adapter.echo /\ i = 1
    THEN received[1].text ELSE ""

C4_ChunkOrder ==
    (Streaming("chat") \/ Streaming("completion")) =>
        /\ Len(BodyChunks) = IF Len(received) > Headers
                             THEN Len(received) - Headers ELSE 0
        /\ \A i \in 1..Len(BodyChunks) :
            LET m == received[Headers + i]
            IN  /\ ChunkText(BodyChunks[i]) = EchoPrefix(i) \o m.text
                /\ BodyChunks[i].finish_reason = stream_finish_reason(m.stop_reason)
                /\ is_some(BodyChunks[i].usage) =>
                       BodyChunks[i].usage[1].completion_tokens
                           = m.generated_token_count

C4_Witness ==
    /\ Streaming("completion")
    /\ adapter.echo
    /\ pc = "done"
    /\ upstream = "ended"
    /\ Len(BodyChunks) = 2
    /\ ChunkText(BodyChunks[1]) # ChunkText(BodyChunks[2])

(***************************************************************************)
(* C5.  Every chunk of either streaming adapter has usage exactly when it  *)
(* has a finish reason, that is when the message it is built from has a    *)
(* stop reason other than NotFinished; the usage then has the first        *)
(* message's input_token_count as prompt_tokens, the message's             *)
(* generated_token_count as completion_tokens, and their sum as total.     *)
(***************************************************************************)
C5_UsageOnlyOnFinish ==
    /\ \A j \in ChunkIndexes :
           is_some(events[j].chunk.usage) <=> is_some(events[j].chunk.finish_reason)
    /\ (Streaming("chat") \/ Streaming("completion")) =>
        \A i \in 1..Len(BodyChunks) :
            LET m == received[Headers + i]
                c == BodyChunks[i]
            IN  /\ is_some(c.finish_reason) <=> m.stop_reason # "NotFinished"
                /\ is_some(c.usage) =>
                    /\ c.usage[1].prompt_tokens = received[1].input_token_count
                    /\ c.usage[1].completion_tokens = m.generated_token_count
                    /\ c.usage[1].total_tokens
                           = received[1].input_token_count + m.generated_token_count

C5_Witness ==
    /\ Streaming("chat")
    /\ Len(BodyChunks) = 2
    /\ BodyChunks[1].usage = None
    /\ BodyChunks[2].usage = Some(Usage(2, 3, 5))

(***************************************************************************)
(* C6.  In completions streaming with echo, the buffered input text and    *)
(* the buffered input tokens go into the first chunk and into no other:    *)
(* the first chunk's text is the first message's text followed by the      *)
(* chunk's own, its logprob tokens are the second message's input tokens   *)
(* followed by its own, and every later chunk has only its own text and    *)
(* tokens.  Without echo no chunk has a prefix.                            *)
(***************************************************************************)
TokenTexts(tokens) == [i \in 1..Len(tokens) |-> tokens[i].text]

\* the tokens array of a chunk's logprobs (null logprobs: no tokens)
LogprobTokens(chunk) ==
    IF chunk.logprobs = None THEN <<>> ELSE chunk.logprobs[1].tokens

C6_EchoPrefixOnce ==
    Streaming("completion") =>
        \A i \in 1..Len(BodyChunks) :
            LET m == received[Headers + i]
                c == BodyChunks[i]
            IN  IF adapter.echo /\ i = 1
                THEN /\ c.text = Some(received[1].text \o m.text)
                     /\ LogprobTokens(c)
                            = TokenTexts(received[2].input_tokens \o m.tokens)
                ELSE /\ c.text = Some(m.text)
                     /\ LogprobTokens(c) = TokenTexts(m.tokens)

C6_Witness ==
    /\ Streaming("completion")
    /\ adapter.echo
    /\ Len(BodyChunks) = 2
    /\ BodyChunks[1].text = Some("Pa")
    /\ LogprobTokens(BodyChunks[1]) = <<"p", "a">>
    /\ BodyChunks[2].text = Some("b")
    /\ LogprobTokens(BodyChunks[2]) = <<"b">>

(***************************************************************************)
(* C7.  When the HTTP client disconnects during a streaming response, the  *)
(* upstream generate_stream call is cancelled, and from then on the        *)
(* adapter reads no upstream message, emits no event and issues no call.   *)
(***************************************************************************)
C7_DisconnectCancels ==
    [][ client' = "disconnected" =>
          /\ upstream' \notin {"pending", "open"}
          /\ client = "disconnected" =>
                /\ received' = received
                /\ events' = events
                /\ calls' = calls ]_vars

C7_Witness ==
    /\ client = "disconnected"
    /\ Streaming("chat")
    /\ pc = "await_body"
    /\ upstream = "cancelled"
    /\ Len(BodyChunks) = 1

(***************************************************************************)
(* C8.  A request to either endpoint with best_of set or with              *)
(* use_beam_search = true is answered 501 and no upstream call is made,    *)
(* whatever its model id; a request with neither is never answered 501.    *)
(***************************************************************************)
C8_NotImplemented501 ==
    [][ pc = "idle" => \A req \in Requests : Handles(req) =>
          IF Flagged(req)
          THEN /\ http_response' # None
               /\ http_response'[1].status = 501
               /\ calls' = <<>>
          ELSE http_response' = None \/ http_response'[1].status # 501 ]_vars

C8_Witness ==
    /\ request # None
    /\ request[1].model = "m4"
    /\ request[1].best_of = None
    /\ request[1].use_beam_search = Some(TRUE)
    /\ http_response = Some(HttpResponse(501, "use_beam_search is not yet implemented", None))
    /\ calls = <<>>

(***************************************************************************)
(* C9.  A request to either endpoint that passes the best_of and           *)
(* use_beam_search checks and names a model id that is no key of the       *)
(* generation client registry is answered 422 with a body naming the       *)
(* model id, and no upstream call is made.                                 *)
(***************************************************************************)
C9_UnknownModel422 ==
    [][ pc = "idle" => \A req \in Requests :
          (Handles(req) /\ ~Flagged(req) /\ req.model \notin clients) =>
              /\ http_response'
                    = Some(HttpResponse(422, "Unrecognized model id " \o req.model, None))
              /\ calls' = <<>> ]_vars

C9_Witness ==
    /\ request # None
    /\ request[1].kind = "chat"
    /\ request[1].model = "m3"
    /\ model_map.version = "V2"
    /\ http_response = Some(HttpResponse(422, "Unrecognized model id m3", None))
    /\ calls = <<>>

(***************************************************************************)
(* C10.  A chat request whose model id has a generation client but no      *)
(* entry in chat_templates is answered 422 (chat template not found) and   *)
(* no upstream call is made; the template lookup comes after the client    *)
(* lookup.                                                                 *)
(* The code breaks this under a legacy model map: chat_templates() is      *)
(* unimplemented!() there and the handler panics (see C32).                *)
(***************************************************************************)
C10_TemplateMissing422 ==
    [][ pc = "idle" => \A req \in ChatCompletionRequests :
          (chat_completions(req) /\ ~Flagged(req) /\ req.model \in clients
             /\ req.model \notin chat_templates(model_map)) =>
              /\ http_response'
                    = Some(HttpResponse(422, "Chat template not found for model id "
                                               \o req.model, None))
              /\ calls' = <<>> ]_vars

\* what the code does guarantee: the claim, under the current schema
C10_TemplateMissing422CurrentSchema ==
    [][ pc = "idle" => \A req \in ChatCompletionRequests :
          (chat_completions(req) /\ ~Flagged(req) /\ req.model \in clients
             /\ model_map.version = "V2"
             /\ req.model \notin chat_templates(model_map)) =>
              /\ http_response'
                    = Some(HttpResponse(422, "Chat template not found for model id "
                                               \o req.model, None))
              /\ calls' = <<>> ]_vars

(***************************************************************************)
(* C11.  When rendering the chat template raises (the role-alternation     *)
(* guard on [user, user]), the handler answers with a 4xx response that    *)
(* carries the raised message, makes no upstream call and does not panic.  *)
(* The code does not do this: ChatTemplate::render unwraps the result of   *)
(* the rendering (lib.rs:120) and the handler task panics.                 *)
(***************************************************************************)
C11_RaisedMessage ==
    "Conversation roles must alternate user/assistant/user/assistant/..."

\* the request the handler took is a chat request whose rendering raises
C11_RenderRaised ==
    /\ pc # "idle"
    /\ request # None
    /\ request[1].kind = "chat"
    /\ ~Flagged(request[1])
    /\ request[1].model \in clients
    /\ model_map.version = "V2"
    /\ request[1].model \in chat_templates(model_map)
    /\ template_render(request[1].messages) = None

C11_RenderError4xx ==
    C11_RenderRaised =>
        /\ pc = "responded"
        /\ http_response # None
        /\ http_response[1].status \in 400..499
        /\ http_response[1].body = C11_RaisedMessage
        /\ calls = <<>>

\* what the code does guarantee: no upstream call is made
C11_RenderErrorNoCall ==
    C11_RenderRaised => (calls = <<>> /\ upstream = "none")

(***************************************************************************)
(* C12.  In the unary paths (chat_generate, generate) an upstream response *)
(* whose stop_reason is NotFinished is answered with an internal error     *)
(* (5xx) and does not panic the handler.                                   *)
(* The code does not do this: the finish-reason match is unimplemented!()  *)
(* for NotFinished (chat.rs:135, completions.rs:123).                      *)
(***************************************************************************)
\* a unary call was answered Ok with a response that is not finished
C12_UnaryNotFinished ==
    /\ calls # <<>>
    /\ calls[1].method = "generate"
    /\ upstream = "ended"
    /\ received # <<>>
    /\ received[1].stop_reason = "NotFinished"

C12_NotFinishedInternalError ==
    C12_UnaryNotFinished =>
        /\ pc = "responded"
        /\ http_response # None
        /\ http_response[1].status \in 500..599

\* what the code does guarantee: no 200 answer is built from such a response
C12_NotFinishedNoAnswer ==
    C12_UnaryNotFinished => (pc = "panicked" /\ http_response = None)

(***************************************************************************)
(* C14.  When the upstream generate or generate_stream call of an OpenAI   *)
(* handler returns an error status, the caller gets an error response and  *)
(* the task serving the request does not panic.                            *)
(* The code does not do this: the result of the call is unwrapped          *)
(* (chat.rs:127, chat.rs:190, completions.rs:115, completions.rs:180).     *)
(***************************************************************************)
C14_UpstreamErrorReported ==
    (calls # <<>> /\ upstream = "failed") =>
        /\ pc # "panicked"
        /\ calls[1].method = "generate" =>
              /\ http_response # None
              /\ http_response[1].status \in 400..599

\* what the code does guarantee: a failed call is never answered with a body
C14_UpstreamErrorNoBody ==
    (calls # <<>> /\ upstream = "failed") =>
        /\ events = <<>>
        /\ calls[1].method = "generate" => http_response = None

(***************************************************************************)
(* Vocabulary of the properties of the native RPC facades.                 *)
(***************************************************************************)
\* the request taken is one of a forwarding method (generation or NLP)
ForwardingTaken ==
    rpc_request # None /\ rpc_request[1].service \in {"generation", "nlp"}

InfoTaken == rpc_request # None /\ rpc_request[1].service = "info"

\* the input the spec's list of short-circuits calls empty
EmptyInput(req) ==
    \/ req.method \in {"generate", "tokenize"} /\ req.message.requests = <<>>
    \/ req.method = "generate_stream" /\ req.message.request = None
    \/ req.method = "embedding_tasks_predict" /\ req.message.texts = <<>>
    \/ req.method = "embedding_task_predict" /\ req.message.text = ""
    \/ req.method = "rerank_tasks_predict"
         /\ (req.message.documents = <<>> \/ req.message.queries = <<>>)
    \/ req.method = "rerank_task_predict"
         /\ (req.message.documents = <<>> \/ req.message.query = "")
    \/ req.method = "sentence_similarity_tasks_predict"
         /\ (req.message.source_sentences = <<>> \/ req.message.sentences = <<>>)
    \/ req.method = "sentence_similarity_task_predict"
         /\ (req.message.source_sentence = "" \/ req.message.sentences = <<>>)
    \/ req.method = "get_models_info" /\ req.message.model_ids = <<>>

\* the answer the spec lists for an empty input
EmptyAnswer(req) ==
    IF req.method = "generate_stream"
    THEN RpcErr(Status("InvalidArgument", "missing request"))
    ELSE RpcOk(Response(ResponseType(req.method), <<>>))

HeaderAbsent(req) == req.metadata.mm_model_id = None

HeaderIsText(req) ==
    ~HeaderAbsent(req) /\ req.metadata.mm_model_id[1].visible_ascii

\* the model id a forwarding method routes by, where it has one
HasRoutingId(req) == req.service = "generation" \/ HeaderIsText(req)

RoutingId(req) ==
    IF req.service = "generation" THEN req.message.model_id
    ELSE req.metadata.mm_model_id[1].bytes

\* the request gets as far as the registry lookup
ReachesLookup(req) == HasRoutingId(req) /\ ~EmptyInput(req)

\* the request gets as far as the upstream call
ReachesDispatch(req) ==
    ReachesLookup(req) /\ RoutingId(req) \in servicer_clients(req.service)

NotFound(model_id) ==
    RpcErr(Status("NotFound", "Unrecognized model_id: " \o model_id))

\* the first model id of an info request that the registry lacks (0: none)
FirstUnknown(ids) ==
    IF \A i \in 1..Len(ids) : ids[i] \in servicer_clients("info") THEN 0
    ELSE CHOOSE i \in 1..Len(ids) :
           /\ ids[i] \notin servicer_clients("info")
           /\ \A j \in 1..(i - 1) : ids[j] \in servicer_clients("info")

\* the first sub-call that failed (0: none)
FirstFailed ==
    IF \A k \in 1..Len(rpc_replies) : rpc_replies[k].ok THEN 0
    ELSE CHOOSE k \in 1..Len(rpc_replies) :
           /\ ~rpc_replies[k].ok
           /\ \A j \in 1..(k - 1) : rpc_replies[j].ok

(***************************************************************************)
(* C13.  A forwarding method of the generation or NLP facade issues        *)
(* exactly one upstream call for a request that reaches dispatch (none     *)
(* for one that does not), never a second one, and when the call fails     *)
(* the caller gets the status of the call unchanged.                       *)
(***************************************************************************)
C13_OneCallNoRetry ==
    ForwardingTaken =>
        /\ Len(rpc_calls) = IF ReachesDispatch(rpc_request[1]) THEN 1 ELSE 0
        /\ Len(rpc_replies) <= Len(rpc_calls)
        /\ (rpc_replies # <<>> /\ ~rpc_replies[1].ok) =>
              /\ rpc_pc = "done"
              /\ rpc_response = Some(RpcErr(rpc_replies[1].status))

C13_Witness ==
    /\ ForwardingTaken
    /\ rpc_request[1].method = "rerank_task_predict"
    /\ rpc_pc = "done"
    /\ Len(rpc_calls) = 1
    /\ rpc_replies = <<RpcErr(Status("Unavailable", "upstream down"))>>
    /\ rpc_response = Some(RpcErr(Status("Unavailable", "upstream down")))

(***************************************************************************)
(* C15.  An NLP RPC or get_models_info whose metadata lacks the            *)
(* mm-model-id header is answered INVALID_ARGUMENT and no upstream call    *)
(* is made.                                                                *)
(* The code does not do this for get_models_info, which never reads the    *)
(* metadata and routes by the model_ids of the message.                    *)
(***************************************************************************)
C15_MissingHeaderInvalidArgument ==
    (rpc_request # None /\ rpc_request[1].service \in {"nlp", "info"}
       /\ HeaderAbsent(rpc_request[1])) =>
        /\ rpc_calls = <<>>
        /\ rpc_pc = "done"
        /\ rpc_response # None
        /\ ~rpc_response[1].ok
        /\ rpc_response[1].status.code = "InvalidArgument"

\* what the code does guarantee: the claim, for the NLP methods
C15_NlpMissingHeaderInvalidArgument ==
    (rpc_request # None /\ rpc_request[1].service = "nlp"
       /\ HeaderAbsent(rpc_request[1])) =>
        /\ rpc_calls = <<>>
        /\ rpc_pc = "done"
        /\ rpc_response
             = Some(RpcErr(Status("InvalidArgument", "Missing required model ID")))

(***************************************************************************)
(* C16.  In every native facade a request that reaches the lookup with a   *)
(* model id that is not a key of the facade's registry is answered         *)
(* NOT_FOUND "Unrecognized model_id: {id}", and no upstream call is made   *)
(* for that id.                                                            *)
(***************************************************************************)
C16_UnknownModelNotFound ==
    /\ (ForwardingTaken /\ ReachesLookup(rpc_request[1])
          /\ RoutingId(rpc_request[1])
               \notin servicer_clients(rpc_request[1].service)) =>
          /\ rpc_pc = "done"
          /\ rpc_response = Some(NotFound(RoutingId(rpc_request[1])))
          /\ rpc_calls = <<>>
    /\ (InfoTaken /\ FirstUnknown(rpc_request[1].message.model_ids) > 0) =>
          LET ids == rpc_request[1].message.model_ids
              i == FirstUnknown(ids)
          IN  /\ \A k \in 1..Len(rpc_calls) : rpc_calls[k].client # ids[i]
              /\ (Len(rpc_replies) = i - 1 /\ FirstFailed = 0) =>
                    /\ rpc_pc = "done"
                    /\ rpc_response = Some(NotFound(ids[i]))

C16_Witness ==
    /\ InfoTaken
    /\ rpc_request[1].message.model_ids = <<"m1", "m4", "m2">>
    /\ rpc_pc = "done"
    /\ Len(rpc_calls) = 1
    /\ rpc_response = Some(NotFound("m4"))

(***************************************************************************)
(* C17.  For each short-circuit the spec lists, when the input is empty    *)
(* the facade makes no upstream call and returns the empty/default         *)
(* response (INVALID_ARGUMENT "missing request" for generate_stream).      *)
(* As stated this fails for the NLP methods, which extract the model id    *)
(* before they look at the input.                                          *)
(***************************************************************************)
C17_EmptyInputShortCircuits ==
    (rpc_request # None /\ EmptyInput(rpc_request[1])) =>
        /\ rpc_calls = <<>>
        /\ rpc_pc = "done"
        /\ rpc_response = Some(EmptyAnswer(rpc_request[1]))

\* C17 as amended: on an empty input no upstream call is made; the
\* generation methods and get_models_info return the empty answer; an NLP
\* method returns it when the mm-model-id header holds text, answers
\* INVALID_ARGUMENT "Missing required model ID" when the header is absent,
\* and its task panics, with no response, when the header value is not
\* visible ASCII.
C17_EmptyInputAfterExtraction ==
    (rpc_request # None /\ EmptyInput(rpc_request[1])) =>
        /\ rpc_calls = <<>>
        /\ IF rpc_request[1].service = "nlp" /\ HeaderAbsent(rpc_request[1])
           THEN /\ rpc_pc = "done"
                /\ rpc_response
                     = Some(RpcErr(Status("InvalidArgument",
                                          "Missing required model ID")))
           ELSE IF rpc_request[1].service = "nlp" /\ ~HeaderIsText(rpc_request[1])
           THEN rpc_pc = "panicked" /\ rpc_response = None
           ELSE /\ rpc_pc = "done"
                /\ rpc_response = Some(EmptyAnswer(rpc_request[1]))

C17_Witness ==
    /\ rpc_request # None
    /\ rpc_request[1].method = "rerank_tasks_predict"
    /\ rpc_request[1].metadata = Metadata(Some(MetadataValue("m4", TRUE)))
    /\ rpc_request[1].message = [queries |-> <<>>, documents |-> <<"d">>]
    /\ rpc_pc = "done"
    /\ rpc_response = Some(RpcOk(Response("RerankResults", <<>>)))
    /\ rpc_calls = <<>>

(***************************************************************************)
(* C18.  When every sub-call of get_models_info succeeds, the models of    *)
(* the aggregated response are the upstream models arrays concatenated in  *)
(* the order of model_ids: one sub-call per id, in order, the length the   *)
(* sum of the lengths, the entries of m_i before those of m_j for i < j.   *)
(***************************************************************************)
RECURSIVE ConcatModels(_)
ConcatModels(replies) ==
    IF replies = <<>> THEN <<>>
    ELSE replies[1].response.items
           \o ConcatModels(SubSeq(replies, 2, Len(replies)))

RECURSIVE SumLen(_)
SumLen(replies) ==
    IF replies = <<>> THEN 0
    ELSE Len(replies[1].response.items)
           + SumLen(SubSeq(replies, 2, Len(replies)))

C18_ModelsConcatenated ==
    (InfoTaken /\ rpc_pc = "done" /\ rpc_response[1].ok
       /\ rpc_request[1].message.model_ids # <<>>) =>
        LET ids == rpc_request[1].message.model_ids
        IN  /\ Len(rpc_calls) = Len(ids)
            /\ Len(rpc_replies) = Len(ids)
            /\ \A i \in 1..Len(ids) :
                 /\ rpc_calls[i].client = ids[i]
                 /\ rpc_calls[i].request.message.model_ids = <<ids[i]>>
            /\ rpc_response[1].response.items = ConcatModels(rpc_replies)
            /\ Len(rpc_response[1].response.items) = SumLen(rpc_replies)

C18_Witness ==
    /\ InfoTaken
    /\ rpc_request[1].message.model_ids = <<"m1", "m2">>
    /\ rpc_pc = "done"
    /\ rpc_response
         = Some(RpcOk(Response("ModelInfoResponse", <<"m1.1", "m1.2", "m2.1">>)))

(***************************************************************************)
(* C19.  In the get_models_info fan-out the sub-calls are issued one at a  *)
(* time in the order of model_ids; if the lookup or the call for m_i       *)
(* fails, the method returns exactly that error, with no models, and no    *)
(* call is issued for any later id.                                        *)
(***************************************************************************)
C19_FanOutAbortsOnError ==
    InfoTaken =>
        LET ids == rpc_request[1].message.model_ids
            u == FirstUnknown(ids)
        IN  /\ Len(rpc_calls) <= Len(ids)
            /\ \A k \in 1..Len(rpc_calls) : rpc_calls[k].client = ids[k]
            /\ Len(rpc_replies) <= Len(rpc_calls)
            /\ Len(rpc_calls) <= Len(rpc_replies) + 1
            /\ FirstFailed > 0 =>
                 /\ Len(rpc_calls) = FirstFailed
                 /\ Len(rpc_replies) = FirstFailed
                 /\ rpc_pc = "done"
                 /\ rpc_response = Some(RpcErr(rpc_replies[FirstFailed].status))
            /\ (u > 0 /\ FirstFailed = 0 /\ Len(rpc_replies) = u - 1) =>
                 /\ Len(rpc_calls) = u - 1
                 /\ rpc_pc = "done"
                 /\ rpc_response = Some(NotFound(ids[u]))

C19_Witness ==
    /\ InfoTaken
    /\ rpc_request[1].message.model_ids = <<"m1", "m2", "m1">>
    /\ rpc_pc = "done"
    /\ Len(rpc_calls) = 2
    /\ rpc_replies[1].ok
    /\ rpc_replies[1].response.items = <<"m1.1">>
    /\ rpc_response = Some(RpcErr(Status("Unavailable", "upstream down")))

(***************************************************************************)
(* C20.  A forwarding method of the generation or NLP facade sends         *)
(* upstream the request it was given, with the same metadata and the same  *)
(* message, and returns to the caller the response upstream gave,          *)
(* unchanged.                                                              *)
(***************************************************************************)
C20_RequestAndResponseUnchanged ==
    ForwardingTaken =>
        /\ \A k \in 1..Len(rpc_calls) :
             /\ rpc_calls[k].method = rpc_request[1].method
             /\ rpc_calls[k].request.metadata = rpc_request[1].metadata
             /\ rpc_calls[k].request.message = rpc_request[1].message
        /\ rpc_replies # <<>> =>
             /\ rpc_pc = "done"
             /\ rpc_response = Some(rpc_replies[1])

C20_Witness ==
    /\ ForwardingTaken
    /\ rpc_request[1].method = "embedding_task_predict"
    /\ rpc_request[1].metadata = Metadata(Some(MetadataValue("m2", TRUE)))
    /\ Len(rpc_calls) = 1
    /\ rpc_calls[1].client = "m2"
    /\ rpc_calls[1].request.metadata = Metadata(Some(MetadataValue("m2", TRUE)))
    /\ rpc_calls[1].request.message = [text |-> "t"]
    /\ rpc_pc = "done"
    /\ rpc_response = Some(RpcOk(Response("EmbeddingResult", <<"r">>)))

(***************************************************************************)
(* C21..C25: the conversion functions.                                     *)
(***************************************************************************)
\* the function has returned for the arguments in conv_in
Converted(function) ==
    /\ is_some(conv_in)
    /\ is_some(conv_out)
    /\ conv_in[1].function = function

\* the finish reason the OpenAI API names for a native stop reason
FinishReasonOf(sr) ==
    CASE sr \in {"MaxTokens", "TokenLimit"} -> "length"
      [] sr \in {"StopSequence", "EosToken"} -> "stop"
      [] sr \in {"Cancelled", "TimeLimit", "Error"} -> "abort"

\* C21: all four adapters map a stop reason to the same finish reason:
\* MaxTokens and TokenLimit to "length", StopSequence and EosToken to "stop",
\* Cancelled, TimeLimit and Error to "abort"; the streaming adapters leave the
\* finish reason absent for NotFinished.
C21_FinishReasonMapping ==
    Converted("stop_reason") =>
        LET sr == conv_in[1].args.stop_reason
            out == conv_out[1]
        IN  IF sr = "NotFinished"
            THEN /\ out.chat_stream = None
                 /\ out.completions_stream = None
            ELSE /\ out.chat = Some(FinishReasonOf(sr))
                 /\ out.chat_stream = Some(FinishReasonOf(sr))
                 /\ out.completions = Some(FinishReasonOf(sr))
                 /\ out.completions_stream = Some(FinishReasonOf(sr))

C21_Witness ==
    /\ Converted("stop_reason")
    /\ conv_in[1].args.stop_reason = "TimeLimit"
    /\ conv_out[1].completions_stream = Some("abort")
    /\ conv_out[1].chat = Some("abort")

\* C22: for chat and for completion requests the decoding method is Sample
\* exactly when the effective temperature (1.0 when absent) is at least
\* SAMPLING_EPS or a seed is present, and Greedy otherwise; the same
\* (temperature, seed) gives the same method for both request types.
C22_DecodingMethod ==
    Converted("decoding_method") =>
        LET req == conv_in[1].args
            effective == IF req.temperature = None THEN DefaultTemperature
                         ELSE req.temperature[1]
            sample == effective >= SAMPLING_EPS \/ req.seed # None
        IN  /\ conv_out[1].chat = IF sample THEN "Sample" ELSE "Greedy"
            /\ conv_out[1].completions = IF sample THEN "Sample" ELSE "Greedy"
            /\ conv_out[1].chat = conv_out[1].completions

C22_Witness ==
    /\ Converted("decoding_method")
    /\ conv_in[1].args.temperature = Some(0)
    /\ conv_in[1].args.seed = Some(42)
    /\ conv_out[1].chat = "Sample"
    /\ conv_out[1].completions = "Sample"

\* C23: for a completion request input_text is echo (false when absent),
\* generated_tokens and token_logprobs say whether logprobs is present,
\* input_tokens is input_text and generated_tokens, token_ranks is false and
\* top_n_tokens is logprobs (0 when absent); for a chat request input_text
\* and input_tokens are false.
C23_ResponseOptions ==
    Converted("response_options") =>
        LET req == conv_in[1].args
            out == conv_out[1]
        IN  IF req.kind = "completion"
            THEN /\ out.input_text = (req.echo = Some(TRUE))
                 /\ out.generated_tokens = (req.logprobs # None)
                 /\ out.token_logprobs = (req.logprobs # None)
                 /\ out.input_tokens = (out.input_text /\ out.generated_tokens)
                 /\ out.token_ranks = FALSE
                 /\ out.top_n_tokens = IF req.logprobs = None THEN 0
                                       ELSE req.logprobs[1]
            ELSE /\ out.input_text = FALSE
                 /\ out.input_tokens = FALSE

C23_Witness ==
    /\ Converted("response_options")
    /\ conv_in[1].args.kind = "completion"
    /\ conv_in[1].args.echo = Some(TRUE)
    /\ conv_in[1].args.logprobs = None
    /\ conv_out[1].input_text
    /\ ~conv_out[1].input_tokens

\* the texts among a token's alternatives and the token itself
TextsOf(token_info) ==
    { token_info.top_tokens[k].text : k \in 1..Len(token_info.top_tokens) }
        \cup { token_info.text }

Ascending(list) ==
    \A i, j \in 1..Len(list) : i < j => list[i].logprob <= list[j].logprob

NoDuplicates(list) ==
    \A i, j \in 1..Len(list) : i # j => list[i].token # list[j].token

\* C24: with n > 0 each top_logprobs list of the chat adapter is sorted
\* ascending by logprob, is at most 1 + len(top_tokens) long, has no token
\* string twice and has the chosen token's text with the chosen token's own
\* logprob.
C24_ChatTopLogprobs ==
    (/\ Converted("chat_create_logprobs")
     /\ conv_in[1].args.n_logprobs > 0
     /\ conv_in[1].args.tokens # <<>>) =>
        \A i \in 1..Len(conv_in[1].args.tokens) :
            LET chosen == conv_in[1].args.tokens[i]
                top == conv_out[1][1].content[i].top_logprobs[1]
            IN  /\ Ascending(top)
                /\ Len(top) <= 1 + Len(chosen.top_tokens)
                /\ NoDuplicates(top)
                /\ \E k \in 1..Len(top) :
                       /\ top[k].token = chosen.text
                       /\ top[k].logprob = chosen.logprob

C24_Witness ==
    /\ Converted("chat_create_logprobs")
    /\ conv_in[1].args.n_logprobs > 0
    /\ conv_in[1].args.tokens
           = <<TokenInfo("a", 1, <<TopToken("a", 3), TopToken("b", 2)>>)>>
    /\ conv_out[1][1].content[1].top_logprobs
           = Some(<<[token |-> "a", logprob |-> 1], [token |-> "b", logprob |-> 2]>>)

\* the logprobs a text comes with among a token's alternatives and the token
LogprobsOf(token_info, text) ==
    { token_info.top_tokens[k].logprob :
        k \in { k \in 1..Len(token_info.top_tokens) :
                  token_info.top_tokens[k].text = text } }
        \cup (IF token_info.text = text THEN { token_info.logprob } ELSE {})

\* the mapping has one key per distinct text, and a text holds the logprob of
\* its occurrence inserted last, which after the ascending sort is its greatest
KeysAndLastInsert(chosen, map) ==
    /\ NoDuplicates(map)
    /\ { map[k].token : k \in 1..Len(map) } = TextsOf(chosen)
    /\ \A k \in 1..Len(map) :
           /\ map[k].logprob \in LogprobsOf(chosen, map[k].token)
           /\ \A l \in LogprobsOf(chosen, map[k].token) : l <= map[k].logprob

CompletionsLogprobsMade ==
    /\ Converted("completions_create_logprobs")
    /\ conv_in[1].args.n_logprobs > 0
    /\ conv_in[1].args.tokens # <<>>

\* C25: with n > 0 each top_logprobs mapping of the completions adapter has
\* one key per distinct text among the top tokens and the chosen token,
\* iterates in ascending logprob order, and holds for a text that occurs more
\* than once the logprob of the occurrence inserted last.
C25_CompletionsTopLogprobs ==
    CompletionsLogprobsMade =>
        \A i \in 1..Len(conv_in[1].args.tokens) :
            /\ KeysAndLastInsert(conv_in[1].args.tokens[i],
                                 conv_out[1][1].top_logprobs[1][i])
            /\ Ascending(conv_out[1][1].top_logprobs[1][i])

\* what holds of the code: the keys and the values are as claimed, and the
\* order is ascending when no text comes with two different logprobs
C25_AscendingWithoutRevaluedText ==
    CompletionsLogprobsMade =>
        \A i \in 1..Len(conv_in[1].args.tokens) :
            LET chosen == conv_in[1].args.tokens[i]
                map == conv_out[1][1].top_logprobs[1][i]
            IN  /\ KeysAndLastInsert(chosen, map)
                /\ (\A text \in TextsOf(chosen) :
                        Cardinality(LogprobsOf(chosen, text)) = 1)
                       => Ascending(map)

(***************************************************************************)
(* C29: the registries and the templates after startup.                    *)
(***************************************************************************)
\* what startup left: the generation clients, the model map with its chat
\* templates, the clients of the NLP and of the info servicer
StartupRegistries == <<clients, model_map, servicers.nlp, servicers.info>>

PastTls == run_pc # "tls"

\* run() has ended in the TLS configuration: nothing was built or started
AbortedInTls ==
    /\ run_pc = "panicked"
    /\ channels = <<>>
    /\ upstream_clients = None
    /\ grpc_server = "not_started"
    /\ http_server = "not_bound"

\* upstream TLS is asked for and the router has no key pair of its own
UpstreamTlsWithoutIdentity == args.upstream_tls /\ ~args.tls_key_pair

\* C26: startup aborts when upstream TLS is requested with neither an
\* identity nor an outbound CA certificate; with an outbound CA certificate
\* and no identity the TLS configuration succeeds and startup goes on to
\* build the upstream clients.
C26_UpstreamTlsCertificates ==
    /\ (UpstreamTlsWithoutIdentity /\ ~args.upstream_tls_ca_cert /\ PastTls)
           => AbortedInTls
    /\ (UpstreamTlsWithoutIdentity /\ args.upstream_tls_ca_cert
            /\ args.pem_readable /\ PastTls)
           => /\ client_tls = Some(ClientTlsConfig(TRUE, FALSE))
              /\ ~AbortedInTls

\* what holds of the code: without a key pair upstream TLS aborts startup,
\* whether an outbound CA certificate is configured or not
C26_AbortsWithoutIdentity ==
    (UpstreamTlsWithoutIdentity /\ PastTls) => AbortedInTls

\* the error the gRPC server task ended with, as run() reports it at the probe
StartupFailed ==
    Some(PanicInfo("gRPC server startup failed", Some(<<"transport error">>)))

\* run() went on after the probe
PastProbe == run_pc \in {"bind_http", "await_http", "await_grpc", "returned"}

\* C27: if the gRPC server task has finished when the two-second wait
\* elapses, run() aborts with that task's error and the HTTP server is
\* never bound; if the task is still running, startup continues and the
\* HTTP server is started.
C27_StartupProbe ==
    /\ grpc_finished = Some(TRUE)
           => /\ run_pc = "panicked"
              /\ run_error = StartupFailed
              /\ http_server = "not_bound"
    /\ grpc_finished = Some(FALSE)
           => /\ PastProbe \/ run_pc = "panicked"
              /\ run_pc \in {"await_http", "await_grpc", "returned"}
                     => http_server # "not_bound"

\* what holds of the code: a task that has finished at the probe ends run()
\* with a panic before the HTTP server is bound, and a task that has ended
\* with an error is reported with it
C27_FinishedTaskAborts ==
    grpc_finished = Some(TRUE)
        => /\ run_pc = "panicked"
           /\ http_server = "not_bound"
           /\ grpc_server = "failed" => run_error = StartupFailed

BothRunning == grpc_server = "running" /\ http_server = "running"

\* both servers have been told of the signal
BothSignalled == grpc_server = "signalled" /\ http_server = "signalled"

\* a server has ended with an error of its own
ServerError == grpc_server = "failed" \/ http_server = "failed"

ShuttingDown(server) == server \in {"signalled", "draining", "stopped"}

FailedChannels == { name \in DOMAIN channels : channels[name] = "failed" }

\* C30: when every channel is built the registry has exactly the keys of
\* the sub-map, each client aimed at the hostname and at the configured or
\* the default port; when a channel fails there is no registry, no server is
\* started and startup aborts with an error that names a failing service.
C30_AllOrNothing ==
    /\ upstream_clients # None =>
           /\ FailedChannels = {}
           /\ DOMAIN upstream_clients[1] = DOMAIN args.model_map
           /\ \A name \in DOMAIN args.model_map :
                  /\ upstream_clients[1][name].hostname
                         = args.model_map[name].hostname
                  /\ upstream_clients[1][name].port
                         = IF args.model_map[name].port = None
                           THEN args.default_target_port
                           ELSE args.model_map[name].port[1]
    /\ FailedChannels # {} =>
           /\ upstream_clients = None
           /\ grpc_server = "not_started"
           /\ http_server = "not_bound"
           /\ run_pc = "panicked"
           /\ \E name \in FailedChannels :
                  run_error = Some(PanicInfo(
                      "Error creating upstream service clients",
                      Some(<<"Channel failed for service", name>>)))

C30_Witness ==
    /\ channels = [name \in {"m1", "m2"} |-> IF name = "m2" THEN "failed" ELSE "ok"]
    /\ run_pc = "panicked"
    /\ upstream_clients = None
    /\ run_error[1].context = Some(<<"Channel failed for service", "m2">>)

(***************************************************************************)
(* C31: the accessors of the model map.                                    *)
(***************************************************************************)
\* the sub-map if it has an entry, else absent
NonEmptyOrAbsent(sub_map) == IF sub_map # {} THEN Some(sub_map) ELSE None

\* C31: for every loaded model map of either schema generation() is the
\* generation sub-map when it is non-empty and absent when it is empty, and
\* embeddings() is the embeddings sub-map when non-empty and absent
\* otherwise, always absent for the legacy schema.
C31_SubMapAccessors ==
    Converted("model_map") =>
        LET mm == conv_in[1].args.model_map
        IN  /\ conv_out[1].generation = NonEmptyOrAbsent(mm.generation)
            /\ conv_out[1].embeddings
                   = IF mm.version = "V1" THEN None
                     ELSE NonEmptyOrAbsent(mm.embeddings)

\* what holds of the code: embeddings() is as claimed, and generation() is
\* as claimed for the current schema and for a legacy map with an entry
C31_AccessorsButEmptyLegacy ==
    Converted("model_map") =>
        LET mm == conv_in[1].args.model_map
        IN  /\ (mm.version = "V2" \/ mm.generation # {})
                   => conv_out[1].generation = NonEmptyOrAbsent(mm.generation)
            /\ conv_out[1].embeddings
                   = IF mm.version = "V1" THEN None
                     ELSE NonEmptyOrAbsent(mm.embeddings)

(***************************************************************************)
(* C32: chat requests under a legacy model map.                            *)
(***************************************************************************)
\* the handler took a chat request for a model that a legacy map configures
C32_LegacyChatRequest ==
    /\ model_map.version = "V1"
    /\ pc # "idle"
    /\ request # None
    /\ request[1].kind = "chat"
    /\ ~Flagged(request[1])
    /\ request[1].model \in clients

\* C32: with a legacy model map the router serves (it was not refused at
\* startup), chat_templates() yields an empty mapping: a chat request for a
\* configured model is answered with the error response 'chat template not
\* found' and the handler does not panic.
C32_LegacyTemplateNotFound ==
    C32_LegacyChatRequest =>
        /\ pc = "responded"
        /\ http_response
               = Some(HttpResponse(422, "Chat template not found for model id "
                                          \o request[1].model, None))

\* what holds of the code: such a request makes no upstream call
C32_LegacyChatNoCall ==
    C32_LegacyChatRequest => (calls = <<>> /\ upstream = "none")

(***************************************************************************)
(* C33: the alternating-role template.                                     *)
(***************************************************************************)
\* user messages at the odd positions, assistant messages at the even ones
Alternating(messages) ==
    \A i \in DOMAIN messages :
        messages[i].role = (IF i % 2 = 1 THEN "user" ELSE "assistant")

RECURSIVE prompt_upto(_, _)
\* the prompt the template is documented to give for messages[1..n]
prompt_upto(messages, n) ==
    IF n = 0 THEN BosToken
    ELSE prompt_upto(messages, n - 1)
            \o (IF messages[n].role = "user"
                THEN "[INST] " \o messages[n].content \o " [/INST]"
                ELSE messages[n].content \o EosToken)

\* C33: rendering the alternating-role template over alternating
\* user/assistant messages gives bos_token, then "[INST] " + content +
\* " [/INST]" for each user message and content + eos_token for each
\* assistant message, and no other character: the white space around the
\* template's lines is trimmed away before the lines are joined.
C33_RenderAlternating ==
    (Converted("render") /\ Alternating(conv_in[1].args.messages)) =>
        conv_out[1].prompt
            = Some(prompt_upto(conv_in[1].args.messages,
                               Len(conv_in[1].args.messages)))

\* the three-message conversation of the unit test has been rendered
C33_Witness ==
    /\ Converted("render")
    /\ Len(conv_in[1].args.messages) = 3
    /\ Alternating(conv_in[1].args.messages)
    /\ conv_out[1].prompt = Some("<s>[INST] Hey [/INST]Good.</s>[INST] testing [/INST]")

(***************************************************************************)
(* C34: header messages of the completions stream.                         *)
(***************************************************************************)
\* the messages the claim says are consumed without an event; the request's
\* echo is the input_text option of the native request
C34_Consumed == IF calls[1].request.params.response.input_text THEN 2 ELSE 1

\* C34: the completions streaming adapter consumes without emitting an event
\* one upstream message when echo is false and two when echo is true,
\* whatever logprobs is; every later message yields exactly one chunk; a
\* normally completed upstream stream of k messages (k at least the consumed
\* ones) gives k-1 or k-2 chunks and then [DONE], and nothing else.
C34_HeadersThenOneChunkEach ==
    Streaming("completion") =>
        /\ Len(received) <= C34_Consumed => ChunkIndexes = {}
        /\ Len(received) > C34_Consumed =>
               Cardinality(ChunkIndexes) = Len(received) - C34_Consumed
        /\ (upstream = "ended" /\ pc = "done" /\ Len(received) >= C34_Consumed) =>
               /\ Len(events) = Len(received) - C34_Consumed + 1
               /\ \A i \in 1..(Len(events) - 1) : events[i].kind = "chunk"
               /\ events[Len(events)] = DoneEvent

\* four messages with echo and no logprobs: two chunks, then [DONE]
C34_Witness ==
    /\ Streaming("completion")
    /\ calls[1].request.params.response.input_text
    /\ ~calls[1].request.params.response.generated_tokens
    /\ upstream = "ended"
    /\ pc = "done"
    /\ Len(received) = 4
    /\ Len(events) = 3
    /\ events[3] = DoneEvent

(***************************************************************************)
(* C35: determinism of the chat logprobs mapping.                          *)
(***************************************************************************)
\* the results create_logprobs of chat.rs can return for the call in hand
C35_Results ==
    chat_create_logprobs(conv_in[1].args.tokens, conv_in[1].args.n_logprobs)

\* some token of the call has two candidates of distinct texts and equal
\* logprob
C35_Tie ==
    \E i \in DOMAIN conv_in[1].args.tokens :
        \E a, b \in hash_map_entries(chained(conv_in[1].args.tokens[i])) :
            a.token # b.token /\ a.logprob = b.logprob

\* C35: the chat logprobs mapping is deterministic: what one invocation of
\* create_logprobs returned is what every other invocation on equal tokens
\* and equal n returns, entry for entry and in the same order, also when
\* two distinct texts carry equal logprobs.
C35_ChatLogprobsDeterministic ==
    Converted("chat_create_logprobs") =>
        \A other \in C35_Results : other = conv_out[1]

\* what holds of the code: the result is determined when no two distinct
\* texts of one token's candidates tie, or when n is 0
C35_DeterministicWithoutTies ==
    (Converted("chat_create_logprobs")
        /\ (~C35_Tie \/ conv_in[1].args.n_logprobs = 0)) =>
        \A other \in C35_Results : other = conv_out[1]

(***************************************************************************)
(* C36: the order of the checks of a forwarding method.                    *)
(***************************************************************************)
\* the routing id of the request taken is not a key of the facade's registry
C36_UnknownModel ==
    RoutingId(rpc_request[1]) \notin servicer_clients(rpc_request[1].service)

\* C36: a forwarding NLP method checks, in this order, that the mm-model-id
\* header is there, whether the input is empty, and whether the registry
\* has the model: without the header the answer is INVALID_ARGUMENT even
\* for an empty input; with a header that names an unknown model an empty
\* input gets the default response and only a non-empty one NOT_FOUND.  A
\* generation method likewise answers an empty input before it looks the
\* model up.  In none of these cases is an upstream call made.
C36_HeaderThenEmptyThenLookup ==
    ForwardingTaken =>
        LET req == rpc_request[1]
        IN  /\ (req.service = "nlp" /\ HeaderAbsent(req)) =>
                  /\ rpc_pc = "done"
                  /\ rpc_calls = <<>>
                  /\ rpc_response
                       = Some(RpcErr(Status("InvalidArgument",
                                            "Missing required model ID")))
            /\ (HasRoutingId(req) /\ C36_UnknownModel) =>
                  /\ rpc_pc = "done"
                  /\ rpc_calls = <<>>
                  /\ rpc_response = IF EmptyInput(req)
                                    THEN Some(EmptyAnswer(req))
                                    ELSE Some(NotFound(RoutingId(req)))

\* an embedding request without texts, for a model the registry lacks, has
\* been answered with the default response
C36_Witness ==
    /\ ForwardingTaken
    /\ rpc_request[1].method = "embedding_tasks_predict"
    /\ HeaderIsText(rpc_request[1])
    /\ C36_UnknownModel
    /\ rpc_request[1].message.texts = <<>>
    /\ rpc_pc = "done"
    /\ rpc_response = Some(RpcOk(Response("EmbeddingResults", <<>>)))

\* a batch without requests, for an unknown model, on the generation facade
C36_WitnessGeneration ==
    /\ ForwardingTaken
    /\ rpc_request[1].method = "generate"
    /\ C36_UnknownModel
    /\ rpc_request[1].message.requests = <<>>
    /\ rpc_response = Some(RpcOk(Response(ResponseType("generate"), <<>>)))

(***************************************************************************)
(* C37: an upstream stream that stops before its header messages.          *)
(***************************************************************************)
\* the upstream stream ended or failed before the generator had read the
\* header messages it reads ahead of its loop
C37_StoppedInHeaders ==
    /\ Streaming("chat") \/ Streaming("completion")
    /\ upstream \in {"ended", "error"}
    /\ Len(received) < Headers

\* C37: when the upstream stream ends or yields an error before the header
\* message(s) the adapter expects (the first; the second too with echo), the
\* adapter ends the SSE stream and the task serving the request does not
\* panic.
C37_HeaderStopNoPanic ==
    C37_StoppedInHeaders => pc # "panicked"

\* what holds of the code: the generator panics on the missing header and
\* the event stream carries neither a body chunk nor [DONE]
C37_HeaderStopPanics ==
    C37_StoppedInHeaders =>
        /\ pc = "panicked"
        /\ BodyChunks = <<>>
        /\ DoneCount = 0

(***************************************************************************)
(* C38: the second header of the completions stream and the input tokens.  *)
(***************************************************************************)
\* the response options of the native request the completions adapter sent
C38_Sent == calls[1].request.params.response

\* the generator has read a second message and emitted nothing for it
C38_SecondConsumed ==
    /\ Len(received) >= 2
    /\ Cardinality(ChunkIndexes) < Len(received) - 1

\* C38: the completions streaming adapter waits for a second header message
\* exactly when the native request it sent asked upstream for the input
\* tokens (input_tokens = true), for every echo and logprobs: the second
\* message is consumed without a chunk if and only if input tokens were
\* asked for, so no message of generated text is lost.
C38_SecondHeaderIffInputTokens ==
    (Streaming("completion") /\ Len(received) >= 2) =>
        (C38_SecondConsumed <=> C38_Sent.input_tokens)

\* what holds of the code: the second message is consumed without a chunk
\* exactly when the input text was asked for (echo)
C38_SecondHeaderIffInputText ==
    (Streaming("completion") /\ Len(received) >= 2) =>
        (C38_SecondConsumed <=> C38_Sent.input_text)

(***************************************************************************)
(* C39: the n of the chat logprobs and the top_n_tokens sent upstream.     *)
(***************************************************************************)
\* the chat adapter has sent its native request
C39_ChatCalled == adapter.endpoint = "chat" /\ calls # <<>>

\* C39: for a chat request the n that create_logprobs is given equals the
\* top_n_tokens of the ResponseOptions sent upstream, for every logprobs
\* and top_logprobs (logprobs=true with top_logprobs absent included): the
\* response carries top_logprobs exactly when top tokens were asked for.
C39_LogprobsCountAsSent ==
    C39_ChatCalled =>
        adapter.n_logprobs = calls[1].request.params.response.top_n_tokens

\* what holds of the code: the two agree when token details were asked for
\* and the adapter's n is not 0, that is when logprobs=true and
\* top_logprobs is given and positive
C39_AgreeWhenBothGiven ==
    (C39_ChatCalled /\ calls[1].request.params.response.generated_tokens
        /\ adapter.n_logprobs > 0) =>
        adapter.n_logprobs = calls[1].request.params.response.top_n_tokens

(***************************************************************************)
(* C40: a gRPC server failure after the startup probe.                     *)
(***************************************************************************)
\* run() has reported the failure of the gRPC server task
C40_GrpcCrashReported ==
    /\ run_pc = "panicked"
    /\ run_error # None
    /\ run_error[1].message = "gRPC server crashed"

\* the HTTP server exists and has not ended: it answers requests, /health
\* among them
C40_HttpServing == http_server \in {"running", "signalled", "draining"}

\* C40: past the startup probe run() awaits the HTTP server before it looks
\* at the gRPC server task: a failure of the gRPC server after the probe is
\* reported only once the HTTP server has stopped; until then run() stays
\* at the await of the HTTP server with nothing reported, and the failure
\* itself leaves the HTTP server as it was, serving.
C40_GrpcFailureAfterHttpStopped ==
    /\ [](C40_GrpcCrashReported =>
            (http_server = "stopped" /\ grpc_finished = Some(FALSE)))
    /\ []((PastProbe /\ grpc_server = "failed" /\ C40_HttpServing) =>
            (run_pc = "await_http" /\ run_error = None))
    /\ [][(PastProbe /\ grpc_server # "failed" /\ grpc_server' = "failed") =>
            http_server' = http_server]_vars

\* the gRPC server failed after the probe while the HTTP server was running,
\* and its failure was reported after the HTTP server had stopped
C40_Witness ==
    /\ C40_GrpcCrashReported
    /\ http_server = "stopped"
    /\ grpc_server = "failed"

\* the gRPC server has failed and the HTTP server still serves
C40_WitnessServing ==
    /\ PastProbe
    /\ grpc_server = "failed"
    /\ http_server = "running"
    /\ run_pc = "await_http"

====
